---- MODULE Spec2Model ----
(***************************************************************************)
(* A model of graphthingy's series ingestion (Grapher::parse,              *)
(* GraphBuilder, RunningAverage) and axis fitting (Grapher::fit_graph,     *)
(* Grapher::from_graphs) in src/src/graph.rs.                              *)
(*                                                                         *)
(* f64 values are modelled as exact fractions <<n, d>> in lowest terms     *)
(* with d > 0, extended by the three IEEE specials: NaN = <<0, 0>>,        *)
(* +inf = <<1, 0>>, -inf = <<-1, 0>>.  Rounding and the sign of zero are   *)
(* not modelled.  A text line is a sequence of one-character strings.      *)
(***************************************************************************)
EXTENDS Integers, Sequences, FiniteSets, TLC

(***************************************************************************)
(* Bounds of the model.                                                    *)
(***************************************************************************)
\* lines read by one run of the line-by-line specification, over all files
MaxLines == 4
\* completed series a Grapher holds in the line-by-line specification
MaxGraphs == 1
\* largest running-average window configured
MaxWindow == 2
\* samples ingested by one run of the whole-file specification
MaxSamples == 3
\* completed series a Grapher holds in the whole-file specification
MaxFitGraphs == 2

(***************************************************************************)
(* f64 arithmetic.                                                         *)
(***************************************************************************)
NaN == <<0, 0>>

IAbs(n) == IF n < 0 THEN -n ELSE n
ISign(n) == IF n < 0 THEN -1 ELSE IF n > 0 THEN 1 ELSE 0

RECURSIVE GCD(_, _)
GCD(a, b) == IF b = 0 THEN a ELSE GCD(b, a % b)

\* the fraction n/d for d >= 0, in lowest terms; n/0 is NaN or an infinity
Frac(n, d) ==
    IF d = 0 THEN <<ISign(n), 0>>
    ELSE LET g == GCD(IAbs(n), d) IN <<ISign(n) * (IAbs(n) \div g), d \div g>>

F(n) == <<n, 1>>
IsNaN(a) == a = NaN

FNeg(a) == <<-a[1], a[2]>>
FAbs(a) == <<IAbs(a[1]), a[2]>>

FAdd(a, b) ==
    IF a[2] = 0 /\ b[2] = 0
    THEN (IF a = b THEN a ELSE NaN)
    ELSE Frac(a[1] * b[2] + b[1] * a[2], a[2] * b[2])

FSub(a, b) == FAdd(a, FNeg(b))

FMul(a, b) == Frac(a[1] * b[1], a[2] * b[2])

\* 1/a; 1/0 is +inf (the sign of zero is not modelled)
FRecip(a) ==
    IF a[1] > 0 THEN <<a[2], a[1]>>
    ELSE IF a[1] < 0 THEN <<-a[2], -a[1]>>
    ELSE <<ISign(a[2]), 0>>

FDiv(a, b) == FMul(a, FRecip(b))

\* a < b and a > b as IEEE comparisons: FALSE when either side is NaN
FLt(a, b) ==
    /\ ~IsNaN(a)
    /\ ~IsNaN(b)
    /\ IF a[2] = 0 /\ b[2] = 0 THEN a[1] < b[1] ELSE a[1] * b[2] < b[1] * a[2]

FGt(a, b) == FLt(b, a)
FLe(a, b) == ~IsNaN(a) /\ ~IsNaN(b) /\ ~FLt(b, a)

\* f64::max and f64::min: a NaN operand is ignored
FMax(a, b) == IF IsNaN(a) THEN b ELSE IF IsNaN(b) THEN a ELSE IF FLt(a, b) THEN b ELSE a
FMin(a, b) == IF IsNaN(a) THEN b ELSE IF IsNaN(b) THEN a ELSE IF FLt(b, a) THEN b ELSE a

\* stands for f64::MAX: larger than every finite value the bounded inputs produce
F64_MAX == 1000000

\* Option<f64> and Option<u32>
NoneF == [some |-> FALSE, v |-> NaN]
SomeF(a) == [some |-> TRUE, v |-> a]
NoneU == [some |-> FALSE, v |-> 0]
SomeU(n) == [some |-> TRUE, v |-> n]

(***************************************************************************)
(* Text: str::trim, str::starts_with and str::parse::<f64>.                *)
(***************************************************************************)
IsWhitespace(c) == c \in {" ", "\t"}

RECURSIVE TrimStart(_)
TrimStart(s) ==
    IF s # <<>> /\ IsWhitespace(Head(s)) THEN TrimStart(Tail(s)) ELSE s

RECURSIVE TrimEnd(_)
TrimEnd(s) ==
    IF s # <<>> /\ IsWhitespace(s[Len(s)])
    THEN TrimEnd(SubSeq(s, 1, Len(s) - 1))
    ELSE s

Trim(s) == TrimEnd(TrimStart(s))

StartsWith(s, prefix) ==
    Len(s) >= Len(prefix) /\ SubSeq(s, 1, Len(prefix)) = prefix

Digits == <<"0", "1", "2", "3", "4", "5", "6", "7", "8", "9">>
IsDigit(c) == \E i \in 1..10 : Digits[i] = c
DigitVal(c) == (CHOOSE i \in 1..10 : Digits[i] = c) - 1

\* ASCII lower case of the letters that spell nan, inf and infinity
Lower(c) ==
    CASE c = "N" -> "n" [] c = "A" -> "a" [] c = "I" -> "i" [] c = "F" -> "f"
      [] c = "T" -> "t" [] c = "Y" -> "y" [] c = "E" -> "e" [] OTHER -> c

LowerAll(s) == [i \in 1..Len(s) |-> Lower(s[i])]

\* how many digits s holds from position i on
RECURSIVE DigitRun(_, _)
DigitRun(s, i) ==
    IF i <= Len(s) /\ IsDigit(s[i]) THEN 1 + DigitRun(s, i + 1) ELSE 0

\* the number a sequence of digits spells
RECURSIVE NatOf(_)
NatOf(s) ==
    IF s = <<>> THEN 0
    ELSE 10 * NatOf(SubSeq(s, 1, Len(s) - 1)) + DigitVal(s[Len(s)])

RECURSIVE Pow10(_)
Pow10(k) == IF k = 0 THEN 1 ELSE 10 * Pow10(k - 1)

ParseErr == [ok |-> FALSE, v |-> NaN]
ParseOk(a) == [ok |-> TRUE, v |-> a]

\* <f64 as FromStr>::from_str: [+-] (digits [. digits] | . digits) [e [+-] digits],
\* or [+-] nan | inf | infinity in any case; nothing else, no whitespace
ParseF64(s) ==
    LET signed == s # <<>> /\ s[1] \in {"+", "-"}
        sgn == IF signed /\ s[1] = "-" THEN -1 ELSE 1
        b == IF signed THEN Tail(s) ELSE s
        word == LowerAll(b)
        n1 == DigitRun(b, 1)
        dot == n1 < Len(b) /\ b[n1 + 1] = "."
        n2 == IF dot THEN DigitRun(b, n1 + 2) ELSE 0
        mEnd == n1 + (IF dot THEN 1 ELSE 0) + n2
        mant == NatOf(SubSeq(b, 1, n1) \o SubSeq(b, n1 + 2, n1 + 1 + n2))
        hasExp == mEnd < Len(b) /\ Lower(b[mEnd + 1]) = "e"
        eSigned == hasExp /\ mEnd + 1 < Len(b) /\ b[mEnd + 2] \in {"+", "-"}
        eStart == mEnd + 2 + (IF eSigned THEN 1 ELSE 0)
        n3 == IF hasExp THEN DigitRun(b, eStart) ELSE 0
        ex == NatOf(SubSeq(b, eStart, eStart + n3 - 1))
        eNeg == eSigned /\ b[mEnd + 2] = "-"
        end == IF hasExp THEN eStart + n3 - 1 ELSE mEnd
    IN  IF word = <<"n", "a", "n">> THEN ParseOk(NaN)
        ELSE IF word = <<"i", "n", "f">>
                \/ word = <<"i", "n", "f", "i", "n", "i", "t", "y">>
        THEN ParseOk(<<sgn, 0>>)
        ELSE IF n1 + n2 = 0 \/ (hasExp /\ n3 = 0) \/ end # Len(b) THEN ParseErr
        ELSE ParseOk(Frac(sgn * mant * (IF eNeg THEN 1 ELSE Pow10(ex)),
                          Pow10(n2) * (IF eNeg THEN Pow10(ex) ELSE 1)))

(***************************************************************************)
(* Series ingestion: RunningAverage, GraphBuilder, Graph.                  *)
(* A point is [x, y] (PointType.pos; PointType.color is None for every     *)
(* point Grapher::parse makes and is left out).                            *)
(***************************************************************************)
Min2(a, b) == IF a < b THEN a ELSE b
Max2(a, b) == IF a > b THEN a ELSE b

\* RunningAverage::new
RunningAverageNew(amount) == [amount |-> amount, values |-> <<>>]

\* points.iter().map(|p| p.pos.y).rev().take(n).sum(): the last n y-values,
\* added to acc from the back
RECURSIVE SumRevTake(_, _, _)
SumRevTake(points, n, acc) ==
    IF n = 0 \/ points = <<>> THEN acc
    ELSE SumRevTake(SubSeq(points, 1, Len(points) - 1), n - 1,
                    FAdd(acc, points[Len(points)].y))

\* a faulty RunningAverage::push: divides by the window, not by the number
\* of values taken
RunningAveragePushByAmount(ra, points) ==
    LET take_amount == Min2(Len(points), ra.amount)
        s == SumRevTake(points, take_amount, F(0))
        value == FDiv(s, F(ra.amount))
    IN  [ra EXCEPT !.values = Append(@, value)]

\* RunningAverage::push
RunningAveragePush(ra, points) ==
    LET take_amount == Min2(Len(points), ra.amount)
        s == SumRevTake(points, take_amount, F(0))
        value == FDiv(s, F(take_amount))
    IN  [ra EXCEPT !.values = Append(@, value)]

\* GraphBuilder::new; running_avg is Option<RunningAverage>
GraphBuilderNew(running_avg) ==
    [points |-> <<>>,
     running_avg |-> [some |-> running_avg.some,
                      ra |-> RunningAverageNew(running_avg.v)],
     lowest_point |-> NoneF,
     highest_point |-> NoneF]

\* GraphBuilder::push
GraphBuilderPush(b, p) ==
    [b EXCEPT
       !.points = Append(@, p),
       !.lowest_point =
           SomeF(IF @.some THEN (IF FGt(@.v, p.y) THEN p.y ELSE @.v) ELSE p.y),
       !.highest_point =
           SomeF(IF @.some THEN (IF FLt(@.v, p.y) THEN p.y ELSE @.v) ELSE p.y)]

\* the comparator of GraphBuilder::complete panics ("values must be
\* comparable") when partial_cmp meets a NaN; a sort of two or more elements
\* compares every element at least once
SortPanics(points) ==
    Len(points) >= 2 /\ \E i \in 1..Len(points) : IsNaN(points[i].x)

RemoveAt(s, i) == SubSeq(s, 1, i - 1) \o SubSeq(s, i + 1, Len(s))

\* sort_unstable_by: every ordering of the points that is sorted by x (the
\* order of points with equal x is unspecified), built by taking a point of
\* least x first
RECURSIVE SortUnstableByX(_)
SortUnstableByX(points) ==
    IF Len(points) < 2 THEN {points}
    ELSE UNION {{<<points[i]>> \o rest : rest \in SortUnstableByX(RemoveAt(points, i))} :
                  i \in {j \in 1..Len(points) :
                           \A k \in 1..Len(points) : FLe(points[j].x, points[k].x)}}

\* (0..len).for_each(|x| running_avg.push(&points[0..x]))
RECURSIVE PushAverages(_, _, _)
PushAverages(ra, points, x) ==
    IF x >= Len(points) THEN ra
    ELSE PushAverages(RunningAveragePush(ra, SubSeq(points, 1, x)), points, x + 1)

\* a faulty complete: the loop over 0..len starts at 1
CompleteSortedSkipFirst(b, sorted) ==
    [b EXCEPT
       !.points = sorted,
       !.running_avg.ra =
           IF b.running_avg.some THEN PushAverages(@, sorted, 1) ELSE @]

\* GraphBuilder::complete once the sort has left the points as `sorted`
CompleteSorted(b, sorted) ==
    [b EXCEPT
       !.points = sorted,
       !.running_avg.ra =
           IF b.running_avg.some THEN PushAverages(@, sorted, 0) ELSE @]

\* a faulty complete: the points are left in insertion order
CompleteUnsorted(b) == {CompleteSorted(b, b.points)}

\* GraphBuilder::complete: the graphs it can return (none when it panics)
Complete(b) ==
    IF SortPanics(b.points) THEN {}
    ELSE {CompleteSorted(b, sorted) : sorted \in SortUnstableByX(b.points)}

\* Graph::averages
Averages(graph) ==
    [some |-> graph.running_avg.some, values |-> graph.running_avg.ra.values]

\* Graph::last
GraphLast(graph) ==
    IF graph.points = <<>> THEN [some |-> FALSE, v |-> [x |-> NaN, y |-> NaN]]
    ELSE [some |-> TRUE, v |-> graph.points[Len(graph.points)]]

(***************************************************************************)
(* Grapher: the axis frame, the configuration and the ingested series.     *)
(***************************************************************************)
\* GrapherConfig{min_avg, min_height, max_height, running_avg,
\* ..Default::default()}: plot_line is the false of Default; log_scale is
\* None in every configuration of the model, and font is Font::default()
GrapherConfig(min_avg, min_height, max_height, running_avg) ==
    [min_avg |-> min_avg, min_height |-> min_height,
     max_height |-> max_height, running_avg |-> running_avg,
     plot_line |-> FALSE]

\* Grapher::new
GrapherNew(config) ==
    [top |-> F(0), bottom |-> F(F64_MAX), left |-> F(0), right |-> F(0),
     config |-> config, graphs |-> <<>>]

\* the loop of Grapher::fit_graph over the points from index i on;
\* acc is [top, average, lowest]
RECURSIVE FitPoints(_, _, _, _)
FitPoints(config, points, i, acc) ==
    IF i > Len(points) THEN acc
    ELSE FitPoints(config, points, i + 1,
           [top |-> IF config.max_height.some THEN config.max_height.v
                    ELSE FMax(acc.top, points[i].y),
            average |-> IF config.min_avg.some THEN FAdd(acc.average, points[i].y)
                        ELSE acc.average,
            lowest |-> FMin(acc.lowest, points[i].y)])

\* a faulty min_avg branch: the sum of y is used as the average
LoweredBottomOfSum(config, lowest, average, len) ==
    IF config.min_avg.some
    THEN LET diff == FAbs(FSub(average, lowest))
         IN  FSub(lowest, FMul(diff, config.min_avg.v))
    ELSE lowest

\* the new bottom when min_height is unset and bottom > lowest
LoweredBottom(config, lowest, average, len) ==
    IF config.min_avg.some
    THEN LET avg == FDiv(average, F(len))
             diff == FAbs(FSub(avg, lowest))
         IN  FSub(lowest, FMul(diff, config.min_avg.v))
    ELSE lowest

\* a faulty fit_graph: right is the last x of the series just fitted
FitGraphRightOfLast(this, graph) ==
    LET last == GraphLast(graph)
        right == IF last.some THEN last.v.x ELSE this.right
        acc == FitPoints(this.config, graph.points, 1,
                         [top |-> this.top, average |-> F(0), lowest |-> F(F64_MAX)])
        bottom == IF this.config.min_height.some THEN this.config.min_height.v
                  ELSE IF FGt(this.bottom, acc.lowest)
                  THEN LoweredBottom(this.config, acc.lowest, acc.average,
                                     Len(graph.points))
                  ELSE this.bottom
    IN  [this EXCEPT !.right = right, !.top = acc.top, !.bottom = bottom]

\* Grapher::fit_graph
FitGraph(this, graph) ==
    LET last == GraphLast(graph)
        right == IF last.some THEN FMax(this.right, last.v.x) ELSE this.right
        acc == FitPoints(this.config, graph.points, 1,
                         [top |-> this.top, average |-> F(0), lowest |-> F(F64_MAX)])
        bottom == IF this.config.min_height.some THEN this.config.min_height.v
                  ELSE IF FGt(this.bottom, acc.lowest)
                  THEN LoweredBottom(this.config, acc.lowest, acc.average,
                                     Len(graph.points))
                  ELSE this.bottom
    IN  [this EXCEPT !.right = right, !.top = acc.top, !.bottom = bottom]

\* graphs.iter().for_each(|graph| this.fit_graph(graph))
RECURSIVE FitAll(_, _, _)
FitAll(this, graphs, i) ==
    IF i > Len(graphs) THEN this
    ELSE FitAll(FitGraph(this, graphs[i]), graphs, i + 1)

\* Grapher::from_graphs
FromGraphs(graphs, config) ==
    [FitAll(GrapherNew(config), graphs, 1) EXCEPT !.graphs = graphs]

\* the locals of Grapher::parse before the first line
ParseLocals(running_avg) ==
    [ok |-> TRUE, x_step |-> F(1), x |-> F(0),
     this_graph |-> GraphBuilderNew(running_avg)]

STEP == <<"s", "t", "e", "p">>

\* a faulty loop body: the sample is pushed before x is advanced
ParseLinePushFirst(st, line) ==
    IF StartsWith(line, STEP)
    THEN LET step == ParseF64(Trim(SubSeq(line, Len(STEP) + 1, Len(line))))
         IN  IF step.ok THEN [st EXCEPT !.x_step = step.v]
             ELSE [st EXCEPT !.ok = FALSE]
    ELSE LET value == ParseF64(Trim(line))
         IN  IF value.ok
             THEN [st EXCEPT !.x = FAdd(st.x, st.x_step),
                     !.this_graph = GraphBuilderPush(@, [x |-> st.x, y |-> value.v])]
             ELSE [st EXCEPT !.ok = FALSE]

\* one turn of the loop of Grapher::parse on `line`; ok = FALSE is the
\* early return of a `?`
ParseLine(st, line) ==
    IF StartsWith(line, STEP)
    THEN LET step == ParseF64(Trim(SubSeq(line, Len(STEP) + 1, Len(line))))
         IN  IF step.ok THEN [st EXCEPT !.x_step = step.v]
             ELSE [st EXCEPT !.ok = FALSE]
    ELSE LET value == ParseF64(Trim(line))
             x == FAdd(st.x, st.x_step)
         IN  IF value.ok
             THEN [st EXCEPT !.x = x,
                     !.this_graph = GraphBuilderPush(@, [x |-> x, y |-> value.v])]
             ELSE [st EXCEPT !.ok = FALSE]

\* the loop of Grapher::parse over the lines from index i on
RECURSIVE ParseLines(_, _, _)
ParseLines(st, lines, i) ==
    IF i > Len(lines) \/ ~st.ok THEN st
    ELSE ParseLines(ParseLine(st, lines[i]), lines, i + 1)

\* the end of Grapher::parse with the completed series this_graph
ParseFinish(this, this_graph) ==
    [FitGraph(this, this_graph) EXCEPT !.graphs = Append(@, this_graph)]

\* GrapherDrawer::position; log_scale is None in every configuration of the
\* model, so y is returned as the division leaves it
Position(this, point) ==
    [x |-> FDiv(FSub(point.x, this.left), FSub(this.right, this.left)),
     y |-> FDiv(FSub(point.y, this.bottom), FSub(this.top, this.bottom))]

(***************************************************************************)
(* Config::parse (src/src/config.rs).  An argument is a sequence of        *)
(* one-character strings.                                                  *)
(***************************************************************************)
ArgL == <<"-", "l">>
ArgLog == <<"-", "-", "l", "o", "g">>
ArgMinAvg == <<"-", "-", "m", "i", "n", "-", "a", "v", "g">>
ArgM == <<"-", "m">>
ArgMin == <<"-", "-", "m", "i", "n">>
ArgBigM == <<"-", "M">>
ArgMax == <<"-", "-", "m", "a", "x">>
ArgR == <<"-", "r">>
ArgRunningAvg ==
    <<"-", "-", "r", "u", "n", "n", "i", "n", "g", "-", "a", "v", "g">>
ArgBigL == <<"-", "L">>
ArgLine == <<"-", "-", "l", "i", "n", "e">>

\* <u32 as FromStr>::from_str: an optional +, then digits only (a value above
\* u32::MAX is an error too; every argument of the model is far below it)
ParseU32(s) ==
    LET b == IF s # <<>> /\ s[1] = "+" THEN Tail(s) ELSE s
    IN  IF b = <<>> \/ DigitRun(b, 1) # Len(b)
        THEN [ok |-> FALSE, v |-> 0]
        ELSE [ok |-> TRUE, v |-> NatOf(b)]

\* config::Error
NoError == [kind |-> "none", first |-> <<>>, second |-> <<>>]
ExpectedValue(argument) ==
    [kind |-> "ExpectedValue", first |-> argument, second |-> <<>>]
ExclusiveArguments(first, second) ==
    [kind |-> "ExclusiveArguments", first |-> first, second |-> second]
NumberParse(value) ==
    [kind |-> "NumberParse", first |-> value, second |-> <<>>]

\* the locals of Config::parse before its loop
ConfigLocals ==
    [log_scale |-> NoneF, min_avg |-> NoneF, min_height |-> NoneF,
     max_height |-> NoneF, running_avg |-> NoneU, plot_line |-> FALSE,
     paths |-> <<>>]

\* a faulty parse_number: a flag that is the last argument is taken to have
\* no value, and parsing goes on
ParseNumberLenient(rest, arg, isFloat) ==
    IF rest = <<>>
    THEN [error |-> NoError, opt |-> IF isFloat THEN NoneF ELSE NoneU,
          rest |-> rest]
    ELSE LET value == Head(rest)
             r == IF isFloat THEN ParseF64(value) ELSE ParseU32(value)
         IN  IF r.ok
             THEN [error |-> NoError,
                   opt |-> IF isFloat THEN SomeF(r.v) ELSE SomeU(r.v),
                   rest |-> Tail(rest)]
             ELSE [error |-> NumberParse(value),
                   opt |-> IF isFloat THEN NoneF ELSE NoneU,
                   rest |-> Tail(rest)]

\* Config::parse_number::<f64> (isFloat) or ::<u32> on the iterator `rest`
\* for the flag `arg`: the error (NoError for Ok), Some(the number) and the
\* iterator it leaves
ParseNumber(rest, arg, isFloat) ==
    IF rest = <<>>
    THEN [error |-> ExpectedValue(arg),
          opt |-> IF isFloat THEN NoneF ELSE NoneU, rest |-> rest]
    ELSE LET value == Head(rest)
             r == IF isFloat THEN ParseF64(value) ELSE ParseU32(value)
         IN  IF r.ok
             THEN [error |-> NoError,
                   opt |-> IF isFloat THEN SomeF(r.v) ELSE SomeU(r.v),
                   rest |-> Tail(rest)]
             ELSE [error |-> NumberParse(value),
                   opt |-> IF isFloat THEN NoneF ELSE NoneU,
                   rest |-> Tail(rest)]

\* `field = Some(Self::parse_number(&mut args, arg)?)` with the locals c,
\* where n is what parse_number returned
SetNumber(c, field, n) ==
    [error |-> n.error, args |-> n.rest,
     conf |-> IF n.error = NoError THEN [c EXCEPT ![field] = n.opt] ELSE c]

\* the arm of the match in Config::parse that takes `arg`, named by the
\* local it sets
MatchArm(arg) ==
    CASE arg \in {ArgL, ArgLog} -> "log_scale"
      [] arg = ArgMinAvg -> "min_avg"
      [] arg \in {ArgM, ArgMin} -> "min_height"
      [] arg \in {ArgBigM, ArgMax} -> "max_height"
      [] arg \in {ArgR, ArgRunningAvg} -> "running_avg"
      [] arg \in {ArgBigL, ArgLine} -> "plot_line"
      [] OTHER -> "paths"

\* one turn of the loop of Config::parse on the iterator `it` with the locals
\* `c`: the match on the next argument; error # NoError is the early return
\* of a `?`.  running_avg is the one u32 among the numbers
ConfigLoop(it, c) ==
    LET arg == Head(it)
        rest == Tail(it)
        arm == MatchArm(arg)
    IN  IF arm = "plot_line"
        THEN [error |-> NoError, args |-> rest,
              conf |-> [c EXCEPT !.plot_line = TRUE]]
        ELSE IF arm = "paths"
        THEN [error |-> NoError, args |-> rest,
              conf |-> [c EXCEPT !.paths = Append(@, arg)]]
        ELSE SetNumber(c, arm, ParseNumber(rest, arg, arm # "running_avg"))

\* a faulty end of Config::parse: the exclusivity of --min-avg and --min is
\* not checked
ConfigFinishUnchecked(c) == [tag |-> "Ok", error |-> NoError]

\* the end of Config::parse, after the loop: what it returns
ConfigFinish(c) ==
    IF c.min_avg.some /\ c.min_height.some
    THEN [tag |-> "Err", error |-> ExclusiveArguments(ArgMinAvg, ArgMin)]
    ELSE [tag |-> "Ok", error |-> NoError]

(***************************************************************************)
(* Colors and the ColorRepr policies (src/src/image.rs).  f32 values are   *)
(* exact fractions like the f64 ones.                                      *)
(***************************************************************************)
U8_MAX == 255

Color(r, g, b) == [r |-> r, g |-> g, b |-> b]
ColorAlpha(r, g, b, a) == [r |-> r, g |-> g, b |-> b, a |-> a]

\* Color::white, Color::black
White == Color(255, 255, 255)
Black == Color(0, 0, 0)

\* `as u8` of an f32: truncated towards zero, saturated to 0..=255, NaN is 0
AsU8(a) ==
    IF a[2] = 0 THEN (IF a[1] > 0 THEN U8_MAX ELSE 0)
    ELSE IF a[1] <= 0 THEN 0
    ELSE Min2(a[1] \div a[2], U8_MAX)

\* Color::lerp_single
LerpSingle(a, b, lerp) ==
    AsU8(FAdd(FMul(F(a), FSub(F(1), lerp)), FMul(F(b), lerp)))

\* Color::lerp
Lerp(self, other, amount) ==
    Color(LerpSingle(self.r, other.r, amount),
          LerpSingle(self.g, other.g, amount),
          LerpSingle(self.b, other.b, amount))

\* impl From<ColorAlpha> for Color
ColorFrom(value) == Color(value.r, value.g, value.b)

\* impl ColorRepr for (): set
UnitSet(previous) == previous

\* impl ColorRepr for Color: set
ColorSet(self, previous) == self

\* a faulty set of ColorAlpha: the weights of the two colors are exchanged
ColorAlphaSetExchanged(self, previous) ==
    Lerp(ColorFrom(self), previous, FDiv(F(self.a), F(U8_MAX)))

\* impl ColorRepr for ColorAlpha: set
ColorAlphaSet(self, previous) ==
    Lerp(ColorFrom(self), previous, FSub(F(1), FDiv(F(self.a), F(U8_MAX))))

\* a `c: impl ColorRepr` argument: the policy and its value
ReprUnit == [policy |-> "()", c |-> ColorAlpha(0, 0, 0, 0)]
ReprColor(c) == [policy |-> "Color", c |-> ColorAlpha(c.r, c.g, c.b, U8_MAX)]
ReprColorAlpha(c) == [policy |-> "ColorAlpha", c |-> c]

\* c.set(previous) for a `c: impl ColorRepr`
Set(repr, previous) ==
    IF repr.policy = "()" THEN UnitSet(previous)
    ELSE IF repr.policy = "Color" THEN ColorSet(ColorFrom(repr.c), previous)
    ELSE ColorAlphaSet(repr.c, previous)

(***************************************************************************)
(* PPMImage (src/src/image.rs).  A Point2 is [x, y]; pixel positions hold  *)
(* integers, points hold f64 values.                                       *)
(***************************************************************************)
\* stands for usize::MAX, which `as usize` gives for +inf and for every value
\* above it: larger than every coordinate the bounded inputs produce
USIZE_MAX == 1000000

Point2(x, y) == [x |-> x, y |-> y]

\* `as usize` of an f64: truncated towards zero, saturated, NaN is 0
AsUsize(a) ==
    IF a[2] = 0 THEN (IF a[1] > 0 THEN USIZE_MAX ELSE 0)
    ELSE IF a[1] <= 0 THEN 0
    ELSE Min2(a[1] \div a[2], USIZE_MAX)

\* PPMImage::new
PPMImageNew(width, height, c) ==
    LET width_bigger == width >= height
        aspect == FDiv(F(width), F(height))
    IN  [data |-> [i \in 1..(width * height) |-> c],
         width |-> width,
         height |-> height,
         width_bigger |-> width_bigger,
         aspect |-> IF width_bigger THEN aspect ELSE FSub(F(2), aspect)]

\* PPMImage::with_aspect
WithAspect(image, point) ==
    IF image.width_bigger
    THEN Point2(FMul(point.x, image.aspect), point.y)
    ELSE Point2(point.x, FMul(point.y, image.aspect))

\* PPMImage::without_aspect
WithoutAspect(image, point) ==
    IF image.width_bigger
    THEN Point2(FDiv(point.x, image.aspect), point.y)
    ELSE Point2(point.x, FDiv(point.y, image.aspect))

\* PPMImage::to_local_f
ToLocalF(image, point) ==
    Point2(FMul(point.x, F(image.width)),
           FMul(FSub(F(1), point.y), F(image.height)))

\* a faulty to_local: the coordinates are clamped to the width and the
\* height, not to the last column and row
ToLocalToSize(image, point) ==
    LET p == ToLocalF(image, point)
    IN  Point2(Min2(Max2(AsUsize(p.x), 0), image.width),
               Min2(Max2(AsUsize(p.y), 0), image.height))

\* PPMImage::to_local, for width >= 1 and height >= 1
ToLocal(image, point) ==
    LET p == ToLocalF(image, point)
    IN  Point2(Min2(Max2(AsUsize(p.x), 0), image.width - 1),
               Min2(Max2(AsUsize(p.y), 0), image.height - 1))

\* a faulty index_maybe: the pixels are laid out column by column
IndexMaybeByColumn(image, pos) ==
    IF pos.y < image.height /\ pos.x < image.width
    THEN SomeU(pos.y + pos.x * image.height)
    ELSE NoneU

\* PPMImage::index_maybe
IndexMaybe(image, pos) ==
    IF pos.y < image.height /\ pos.x < image.width
    THEN SomeU(pos.x + pos.y * image.width)
    ELSE NoneU

\* the loop of PPMImage::line_pixels from p0 on, with the pixels pushed so far
RECURSIVE LinePixelsLoop(_, _, _, _, _, _, _, _)
LinePixelsLoop(p0, p1, dx, dy, sx, sy, error, pixels) ==
    LET pushed == Append(pixels, p0)
        error_2 == error * 2
        stepX == error_2 >= dy
        stepY == error_2 <= dx
        x == IF stepX THEN p0.x + sx ELSE p0.x
        e == IF stepX THEN error + dy ELSE error
    IN  IF p0.x = p1.x /\ p0.y = p1.y THEN pushed
        ELSE IF stepX /\ p0.x = p1.x THEN pushed
        ELSE IF stepY /\ p0.y = p1.y THEN pushed
        ELSE IF stepY
        THEN LinePixelsLoop(Point2(x, p0.y + sy), p1, dx, dy, sx, sy, e + dx, pushed)
        ELSE LinePixelsLoop(Point2(x, p0.y), p1, dx, dy, sx, sy, e, pushed)

\* a faulty line_pixels: the end point p1 is not pushed
LinePixelsHalfOpen(p0, p1) ==
    LET dx == IAbs(p1.x - p0.x)
        dy == -IAbs(p1.y - p0.y)
        pixels == LinePixelsLoop(p0, p1, dx, dy,
                                 IF p0.x < p1.x THEN 1 ELSE -1,
                                 IF p0.y < p1.y THEN 1 ELSE -1,
                                 dx + dy, <<>>)
    IN  IF Len(pixels) > 1 THEN SubSeq(pixels, 1, Len(pixels) - 1) ELSE pixels

\* PPMImage::line_pixels (the coordinates are far inside the range of i32)
LinePixels(p0, p1) ==
    LET dx == IAbs(p1.x - p0.x)
        dy == -IAbs(p1.y - p0.y)
    IN  LinePixelsLoop(p0, p1, dx, dy,
                       IF p0.x < p1.x THEN 1 ELSE -1,
                       IF p0.y < p1.y THEN 1 ELSE -1,
                       dx + dy, <<>>)

\* low..=high as a sequence of the points of row y
RECURSIVE RowPoints(_, _, _)
RowPoints(low, high, y) ==
    IF low > high THEN <<>>
    ELSE <<Point2(low, y)>> \o RowPoints(low + 1, high, y)

\* the rows of triangle_local_pixels from row y on: each row runs from the
\* least to the greatest x the three edges touch on it
RECURSIVE TriangleRows(_, _, _)
TriangleRows(edges, y, y_highest) ==
    IF y > y_highest THEN <<>>
    ELSE LET xs == {edges[i].x : i \in {j \in 1..Len(edges) : edges[j].y = y}}
             low == IF xs = {} THEN USIZE_MAX
                    ELSE CHOOSE m \in xs : \A v \in xs : m <= v
             high == IF xs = {} THEN 0
                     ELSE CHOOSE m \in xs : \A v \in xs : m >= v
         IN  RowPoints(low, high, y) \o TriangleRows(edges, y + 1, y_highest)

\* a faulty triangle_local_pixels: the edge from p2 back to p0 is left out
TriangleLocalPixelsTwoEdges(p0, p1, p2) ==
    LET y_lowest == Min2(p0.y, Min2(p1.y, p2.y))
        y_highest == Max2(p0.y, Max2(p1.y, p2.y))
    IN  TriangleRows(LinePixels(p0, p1) \o LinePixels(p1, p2), y_lowest, y_highest)

\* PPMImage::triangle_local_pixels
TriangleLocalPixels(p0, p1, p2) ==
    LET y_lowest == Min2(p0.y, Min2(p1.y, p2.y))
        y_highest == Max2(p0.y, Max2(p1.y, p2.y))
    IN  TriangleRows(LinePixels(p0, p1) \o LinePixels(p1, p2) \o LinePixels(p2, p0),
                     y_lowest, y_highest)

\* PPMImage::triangle_pixels
TrianglePixels(image, p0, p1, p2) ==
    TriangleLocalPixels(ToLocal(image, p0), ToLocal(image, p1), ToLocal(image, p2))

\* the elements of a sequence
Range(q) == {q[i] : i \in 1..Len(q)}

(***************************************************************************)
(* Drawing with triangles: line_thick, circle, text.  Square roots and the *)
(* sines and cosines of fixed angles are taken to two decimals; an angle   *)
(* is held as its cosine and sine.                                         *)
(***************************************************************************)
\* Point2: +, -, * (componentwise) and * by a scalar
PAdd(p, q) == Point2(FAdd(p.x, q.x), FAdd(p.y, q.y))
PSub(p, q) == Point2(FSub(p.x, q.x), FSub(p.y, q.y))
PMul(p, q) == Point2(FMul(p.x, q.x), FMul(p.y, q.y))
PScale(p, k) == Point2(FMul(p.x, k), FMul(p.y, k))

\* the greatest k in lo..hi with k * k <= m
RECURSIVE ISqrtIn(_, _, _)
ISqrtIn(m, lo, hi) ==
    IF lo >= hi THEN lo
    ELSE LET mid == (lo + hi + 1) \div 2
         IN  IF mid * mid <= m THEN ISqrtIn(m, mid, hi) ELSE ISqrtIn(m, lo, mid - 1)

ISqrt(m) == ISqrtIn(m, 0, Min2(m, 40000))

\* n / d in hundredths, cut, for n >= 0 and d > 0
Cents(n, d) == (n \div d) * 100 + ((n % d) * 100) \div d
\* n / d in ten-thousandths, cut
CentsOfCents(n, d) == Cents(n, d) * 100 + ((((n % d) * 100) % d) * 100) \div d

\* f64::sqrt: exact for a quotient of squares, to two decimals otherwise
FSqrt(a) ==
    IF a[2] = 0 THEN (IF a[1] > 0 THEN a ELSE NaN)
    ELSE IF a[1] < 0 THEN NaN
    ELSE IF ISqrt(a[1]) * ISqrt(a[1]) = a[1] /\ ISqrt(a[2]) * ISqrt(a[2]) = a[2]
    THEN Frac(ISqrt(a[1]), ISqrt(a[2]))
    ELSE Frac(ISqrt(CentsOfCents(a[1], a[2])), 100)

\* f64::hypot: +inf when either side is infinite, NaN when one is NaN
Hypot(x, y) ==
    IF (x[2] = 0 /\ x[1] # 0) \/ (y[2] = 0 /\ y[1] # 0) THEN <<1, 0>>
    ELSE IF IsNaN(x) \/ IsNaN(y) THEN NaN
    ELSE FSqrt(FAdd(FMul(x, x), FMul(y, y)))

\* a finite value cut to two decimals
Round2(a) == Frac(ISign(a[1]) * Cents(IAbs(a[1]), a[2]), 100)

Angle(cos, sin) == [cos |-> cos, sin |-> sin]
AngleNeg(a) == Angle(a.cos, FNeg(a.sin))

\* f64::atan2(y, x) as an angle: 0 for (0, 0), the multiples of pi/4 when a
\* side is infinite, NaN when one is NaN
Atan2(y, x) ==
    IF IsNaN(x) \/ IsNaN(y) THEN Angle(NaN, NaN)
    ELSE IF x[2] = 0 /\ y[2] = 0
    THEN Angle(Frac(71 * x[1], 100), Frac(71 * y[1], 100))
    ELSE IF x[2] = 0 THEN Angle(F(x[1]), F(0))
    ELSE IF y[2] = 0 THEN Angle(F(0), F(y[1]))
    ELSE IF x[1] = 0 /\ y[1] = 0 THEN Angle(F(1), F(0))
    ELSE Angle(Round2(FDiv(x, Hypot(x, y))), Round2(FDiv(y, Hypot(x, y))))

\* Point2::rotate: the point turned clockwise by the angle
Rotate(p, a) ==
    Point2(FAdd(FMul(p.x, a.cos), FMul(p.y, a.sin)),
           FSub(FMul(p.y, a.cos), FMul(p.x, a.sin)))

\* sin(i * pi / 4) for i = 1..4 (line_thick_pixels: p.sin())
CapSin == <<Frac(71, 100), F(1), Frac(71, 100), F(0)>>

\* the closure `direction` of line_thick_pixels
Direction(image, raw, angle, thickness) ==
    PScale(WithoutAspect(image, Rotate(raw, angle)), thickness)

\* the closure `point_at` of line_thick_pixels; cap_points is 3
CapPointAt(image, i, x_scale, angle, thickness) ==
    LET p_n == Frac(i, 3 + 1)
        p_s == FSub(FMul(p_n, F(2)), F(1))
    IN  Direction(image, Point2(FMul(CapSin[i], x_scale), p_s), angle, thickness)

\* the points point_at gives for x_scale -1 and 1 and for i = 1..4
CapPoints(image, angle, thickness) ==
    [s \in {-1, 1}, i \in 1..4 |-> CapPointAt(image, i, F(s), angle, thickness)]

\* the triangles of line_thick_pixels: three for the cap at p0, three for the
\* cap at p1, two for the line
LineThickTriangles(p0, p1, up, at) ==
    [k \in 1..8 |->
        IF k <= 3
        THEN <<PSub(p0, up), PAdd(p0, at[-1, k]), PAdd(p0, at[-1, k + 1])>>
        ELSE IF k <= 6
        THEN <<PSub(p1, up), PAdd(p1, at[1, k - 3]), PAdd(p1, at[1, k - 2])>>
        ELSE IF k = 7
        THEN <<PAdd(p0, up), PAdd(p1, up), PSub(p0, up)>>
        ELSE <<PSub(p0, up), PAdd(p1, up), PSub(p1, up)>>]

\* pixels.extend(self.triangle_pixels(..)) for each of the triangles
TrianglesPixels(image, triangles) ==
    UNION {Range(TrianglePixels(image, triangles[k][1], triangles[k][2], triangles[k][3])) :
             k \in 1..Len(triangles)}

\* line_thick_pixels once the angle is known
LineThickAt(image, p0, p1, angle, thickness) ==
    TrianglesPixels(image,
        LineThickTriangles(p0, p1,
            Direction(image, Point2(F(0), F(1)), angle, thickness),
            CapPoints(image, angle, thickness)))

\* PPMImage::line_thick_pixels
LineThickPixels(image, p0, p1, thickness) ==
    LineThickAt(image, p0, p1,
                AngleNeg(Atan2(FSub(p1.y, p0.y), FSub(p1.x, p0.x))), thickness)

\* sin and cos of i * 2 pi / 9 for i = 0..9 (circle: lod is 9)
CircleSin ==
    <<F(0), Frac(64, 100), Frac(98, 100), Frac(87, 100), Frac(34, 100),
      Frac(-34, 100), Frac(-87, 100), Frac(-98, 100), Frac(-64, 100), F(0)>>
CircleCos ==
    <<F(1), Frac(77, 100), Frac(17, 100), Frac(-50, 100), Frac(-94, 100),
      Frac(-94, 100), Frac(-50, 100), Frac(17, 100), Frac(77, 100), F(1)>>

\* the closure `point_at` of circle
CirclePointAt(image, i, pos, size) ==
    PAdd(PMul(Point2(CircleSin[i + 1], CircleCos[i + 1]),
              WithoutAspect(image, Point2(size, size))),
         pos)

\* the pixels circle collects
CirclePixels(image, pos, size) ==
    UNION {Range(TrianglePixels(image, CirclePointAt(image, i - 1, pos, size), pos,
                                CirclePointAt(image, i, pos, size))) :
             i \in 1..9}

(***************************************************************************)
(* Writing pixels, text and the deferred SDF drawer (src/src/image.rs,     *)
(* src/src/font.rs).                                                       *)
(***************************************************************************)
\* `self[pixel] = c.set(self[pixel])` for each of the pixels.  IndexMut panics
\* ("index out of range") on a pixel outside the image: ok is FALSE then and
\* the data is of no further use
WritePixels(image, pixels, repr) ==
    IF \E p \in pixels : ~IndexMaybe(image, p).some
    THEN [ok |-> FALSE, data |-> image.data]
    ELSE [ok |-> TRUE,
          data |-> [i \in 1..Len(image.data) |->
                      IF \E p \in pixels : IndexMaybe(image, p).v + 1 = i
                      THEN Set(repr, image.data[i])
                      ELSE image.data[i]]]

\* font::Line and FontChar
FontLine(start, end) == [start |-> start, end |-> end]
FontChar(lines, width, step) == [lines |-> lines, width |-> width, step |-> step]

\* Font::default: the glyphs of the characters the bounded texts hold
DefaultStep == Frac(35, 100)
FontChars ==
    [c \in {"1", "7"} |->
        IF c = "1"
        THEN FontChar(<<FontLine(Point2(F(1), F(0)), Point2(F(1), F(1)))>>,
                      Frac(1, 10), DefaultStep)
        ELSE FontChar(<<FontLine(Point2(F(0), F(1)), Point2(F(1), F(1))),
                        FontLine(Point2(F(1), F(1)), Point2(Frac(1, 10), F(0)))>>,
                      Frac(7, 10), DefaultStep)]

\* FontChar::total_step
TotalStep(c) == FAdd(c.width, c.step)

\* text.chars().filter_map(|c| font.get(c)): the glyphs of a text
RECURSIVE Glyphs(_)
Glyphs(text) ==
    IF text = <<>> THEN <<>>
    ELSE (IF Head(text) \in DOMAIN FontChars THEN <<FontChars[Head(text)]>> ELSE <<>>)
           \o Glyphs(Tail(text))

\* the map of text_char_positions from glyph i on: a CharInfo per glyph
RECURSIVE CharInfos(_, _, _, _, _, _)
CharInfos(glyphs, i, position, step_size, size, thickness) ==
    IF i > Len(glyphs) THEN <<>>
    ELSE LET here == Point2(FAdd(position.x, step_size), position.y)
         IN  <<[size |-> size, position |-> here, thickness |-> thickness,
                c |-> glyphs[i]]>>
               \o CharInfos(glyphs, i + 1, here,
                            FMul(TotalStep(glyphs[i]), size.x), size, thickness)

\* PPMImage::text_char_positions
TextCharPositions(image, position, size, text) ==
    CharInfos(Glyphs(text), 1, position, F(0), WithoutAspect(image, size),
              FMul(FMin(size.x, size.y), Frac(5, 100)))

\* the pixels of one character of PPMImage::text: the union over its lines
CharPixels(image, info) ==
    UNION {LineThickPixels(image,
               PAdd(info.position,
                    PMul(Point2(FMul(info.c.lines[k].start.x, info.c.width),
                                info.c.lines[k].start.y), info.size)),
               PAdd(info.position,
                    PMul(Point2(FMul(info.c.lines[k].end.x, info.c.width),
                                info.c.lines[k].end.y), info.size)),
               info.thickness) : k \in 1..Len(info.c.lines)}

\* the pixel sets PPMImage::text writes, one per character, in order
TextPixels(image, position, size, text) ==
    LET infos == TextCharPositions(image, position, size, text)
    IN  [k \in 1..Len(infos) |-> CharPixels(image, infos[k])]

\* writes the pixel sets one after the other
RECURSIVE WriteAll(_, _, _, _)
WriteAll(image, sets, i, repr) ==
    IF i > Len(sets) THEN [ok |-> TRUE, data |-> image.data]
    ELSE LET w == WritePixels(image, sets[i], repr)
         IN  IF ~w.ok THEN w
             ELSE WriteAll([image EXCEPT !.data = w.data], sets, i + 1, repr)

\* f64::powi(2)
Powi2(a) == FMul(a, a)

\* DeferredSDFDrawer::line: the Line that is pushed
SdfLine(image, q0, q1, thickness, c) ==
    LET p0 == WithAspect(image, q0)
        p1 == WithAspect(image, q1)
        p_offset == PSub(p1, p0)
        length == Hypot(p_offset.x, p_offset.y)
        half_length == FDiv(length, F(2))
    IN  [p0 |-> p0, p1 |-> p1, thickness |-> thickness, c |-> c,
         rotation |-> Atan2(p_offset.y, p_offset.x),
         half_length |-> half_length,
         local_length |-> FDiv(half_length, thickness),
         clip_distance |->
             FAdd(FAdd(FAdd(Powi2(p_offset.x), Powi2(p_offset.y)),
                       FMul(FMul(F(2), length), thickness)),
                  Powi2(thickness))]

\* SignedDistance::circle and SignedDistance::rectangle
SdCircle(point, size) == FSub(Hypot(point.x, point.y), size)
SdRectangle(point, size) ==
    LET dist == Point2(FSub(FAbs(point.x), size), FSub(FAbs(point.y), size))
        out_dist == Hypot(FMax(dist.x, F(0)), FMax(dist.y, F(0)))
        in_dist == FMin(FMax(dist.x, dist.y), F(0))
    IN  FAdd(out_dist, in_dist)

\* sdf_lines: the point of pixel (x, y)
SdfCurr(image, x, y) ==
    WithAspect(image, Point2(FDiv(F(x), F(image.width)),
                             FSub(F(1), FDiv(F(y), F(image.height)))))

\* sdf_lines: the line is skipped at this point
SdfClipped(line, curr) ==
    LET d == PSub(curr, line.p0)
    IN  FGt(FAdd(Powi2(d.x), Powi2(d.y)), line.clip_distance)

\* sdf_lines: is_cap and is_body
IsCap(line, curr) ==
    \/ FLt(SdCircle(PSub(curr, line.p0), line.thickness), F(0))
    \/ FLt(SdCircle(PSub(curr, line.p1), line.thickness), F(0))

IsBody(line, curr) ==
    LET turned == Rotate(PSub(curr, line.p0), line.rotation)
        moved == PSub(turned, Point2(line.half_length, F(0)))
        scaled == Point2(FDiv(moved.x, line.local_length), FDiv(moved.y, F(1)))
    IN  FLt(SdRectangle(scaled, line.thickness), F(0))

\* sdf_lines: the line colors this point
SdfHits(line, curr) ==
    /\ ~SdfClipped(line, curr)
    /\ IsCap(line, curr) \/ IsBody(line, curr)

\* a faulty pass over the lines: the first line of the batch that colors the
\* point wins
SdfColorForward(lines, curr, previous) ==
    LET hits == {k \in 1..Len(lines) : SdfHits(lines[k], curr)}
    IN  IF hits = {} THEN previous
        ELSE lines[CHOOSE k \in hits : \A j \in hits : k <= j].c

\* sdf_lines: `for line in lines.iter().copied().rev()` with its break
SdfColor(lines, curr, previous) ==
    LET hits == {k \in 1..Len(lines) : SdfHits(lines[k], curr)}
    IN  IF hits = {} THEN previous
        ELSE lines[CHOOSE k \in hits : \A j \in hits : k >= j].c

\* PPMImage::sdf_lines: i runs over the rows, and over the columns in each
SdfLines(image, lines) ==
    [i \in 1..Len(image.data) |->
        SdfColor(lines,
                 SdfCurr(image, (i - 1) % image.width, (i - 1) \div image.width),
                 image.data[i])]

\* format!("{}", n) for a usize
RECURSIVE Decimal(_)
Decimal(n) ==
    IF n < 10 THEN <<Digits[n + 1]>>
    ELSE Append(Decimal(n \div 10), Digits[(n % 10) + 1])

(***************************************************************************)
(* GrapherDrawer (src/src/graph.rs): the padding box, the regression line  *)
(* and the drawing calls of to_image.  The drawer's image is modelled by   *)
(* the calls made on it: a call holds the part of to_image it comes from,  *)
(* the index of its series (0 outside the loops), the primitive and its    *)
(* arguments.                                                              *)
(***************************************************************************)
\* Grapher::to_drawer_with: the padding box for a canvas of width x height
ToDrawerWithPad(width, height) ==
    LET aspect == FDiv(F(width), F(height))
        pad == Frac(25, 1000)
    IN  [bottom_left |-> Point2(FDiv(Frac(2, 10), aspect), pad),
         top_right |-> Point2(FSub(F(1), FDiv(pad, aspect)), FSub(F(1), pad))]

\* BoundingBox::area
Area(bb) == PSub(bb.top_right, bb.bottom_left)

\* GrapherDrawer::fit
Fit(pad, point) == PAdd(PMul(point, Area(pad)), pad.bottom_left)

\* GrapherDrawer::to_local
DrawerToLocal(this, pad, point) == Fit(pad, Position(this, point))

\* GrapherDrawer::unposition (log_scale is None)
Unposition(this, point) ==
    Point2(FAdd(FMul(point.x, FSub(this.right, this.left)), this.left),
           FAdd(FMul(point.y, FSub(this.top, this.bottom)), this.bottom))

\* values.sum::<f64>()
RECURSIVE SumF(_)
SumF(values) ==
    IF values = <<>> THEN F(0) ELSE FAdd(Head(values), SumF(Tail(values)))

\* Points::mean
Mean(values) == FDiv(SumF(values), F(Len(values)))

\* Points::best_fit_line
BestFitLine(points) ==
    LET mean_x == Mean([i \in 1..Len(points) |-> points[i].x])
        mean_y == Mean([i \in 1..Len(points) |-> points[i].y])
        top == SumF([i \in 1..Len(points) |->
                        FMul(FSub(points[i].x, mean_x), FSub(points[i].y, mean_y))])
        bottom == SumF([i \in 1..Len(points) |->
                           FMul(FSub(points[i].x, mean_x), FSub(points[i].x, mean_x))])
        slope == FDiv(top, bottom)
    IN  [slope |-> slope, intercept |-> FSub(mean_y, FMul(slope, mean_x))]

\* Line::at_x, Line::at_y
AtX(line, x) == FAdd(FMul(line.slope, x), line.intercept)
AtY(line, y) == FDiv(FSub(y, line.intercept), line.slope)

\* f64::clamp(0.0, 1.0): a NaN stays NaN
Clamp01(y) == IF FLt(y, F(0)) THEN F(0) ELSE IF FGt(y, F(1)) THEN F(1) ELSE y

\* the closure point_at of draw_best_fit_line
PointAt(line, x) ==
    LET y == AtX(line, x)
    IN  IF ~(FLe(F(0), y) /\ FLe(y, F(1)))
        THEN Point2(AtY(line, Clamp01(y)), Clamp01(y))
        ELSE Point2(x, y)

\* draw_best_fit_line: start and end of the overlay of `graph`, before fit
BestFitSegment(this, graph) ==
    LET line == BestFitLine([i \in 1..Len(graph.points) |->
                                Position(this, graph.points[i])])
    IN  <<PointAt(line, F(0)), PointAt(line, F(1))>>

\* a call made on the image of the drawer
DrawCall(from, series, op, args) ==
    [from |-> from, series |-> series, op |-> op, args |-> args]

LineThickCall(from, series, p0, p1, thickness, c) ==
    DrawCall(from, series, "line_thick", <<p0, p1, thickness, c>>)

\* the constants of GrapherDrawer::to_image
Thickness == Frac(5, 1000)
GuideSize == Frac(1, 100)

\* the closure lerp of draw_guides
LerpF(a, b, t) == FAdd(FMul(a, FSub(F(1), t)), FMul(b, t))

\* the closure cap_at of draw_guides
CapAt(pad, y, thickness, original_thickness) ==
    LET at == LerpF(pad.bottom_left.y, pad.top_right.y, y)
        guide_width == FMul(GuideSize, FSqrt(FDiv(thickness, original_thickness)))
    IN  LineThickCall("guides", 0,
                      Point2(FSub(pad.bottom_left.x, guide_width), at),
                      Point2(FAdd(pad.bottom_left.x, guide_width), at),
                      thickness, Black)

\* the closure line_at of draw_guides
LineAt(pad, y, thickness, original_thickness) ==
    LET at == LerpF(pad.bottom_left.y, pad.top_right.y, y)
    IN  <<LineThickCall("guides", 0,
                        Point2(pad.bottom_left.x, at), Point2(pad.top_right.x, at),
                        thickness, ColorAlpha(0, 0, 0, 15)),
          CapAt(pad, y, thickness, original_thickness)>>

\* the loop of draw_guides over i in 1..divisions, from i on
RECURSIVE GuideDivisions(_, _, _, _)
GuideDivisions(pad, i, half_thickness, original_thickness) ==
    IF i >= 10 THEN <<>>
    ELSE LineAt(pad, FMul(F(i), Frac(5, 100)), half_thickness, original_thickness)
           \o LineAt(pad, FAdd(Frac(1, 2), FMul(F(i), Frac(5, 100))),
                     half_thickness, original_thickness)
           \o GuideDivisions(pad, i + 1, half_thickness, original_thickness)

\* GrapherDrawer::draw_guides(thickness * 0.75, ..)
DrawGuides(pad) ==
    LET original_thickness == FMul(Thickness, Frac(75, 100))
        half_thickness == FMul(original_thickness, Frac(55, 100))
    IN  LineAt(pad, Frac(1, 2), original_thickness, original_thickness)
          \o LineAt(pad, F(1), original_thickness, original_thickness)
          \o GuideDivisions(pad, 1, half_thickness, original_thickness)
          \o <<CapAt(pad, F(0), original_thickness, original_thickness),
               CapAt(pad, F(1), original_thickness, original_thickness)>>

\* one turn of the first loop of to_image: the marker at the lowest value
\* of series i, if it has one
LowestMarker(this, pad, i) ==
    LET lowest == this.graphs[i].lowest_point
        y == Position(this, Point2(F(0), lowest.v)).y
    IN  IF lowest.some
        THEN <<LineThickCall("lowest", i, Fit(pad, Point2(F(0), y)),
                             Fit(pad, Point2(F(1), y)), Thickness,
                             Color(210, 210, 210))>>
        ELSE <<>>

\* GrapherDrawer::draw_borders
DrawBorders(pad) ==
    <<LineThickCall("borders", 0, pad.bottom_left,
                    Point2(pad.bottom_left.x, pad.top_right.y), Thickness, Black),
      LineThickCall("borders", 0, pad.bottom_left,
                    Point2(pad.top_right.x, pad.bottom_left.y), Thickness, Black)>>

\* GrapherDrawer::draw_best_fit_line for series i
DrawBestFitLine(this, pad, i, c) ==
    LET segment == BestFitSegment(this, this.graphs[i])
    IN  <<LineThickCall("best_fit", i, Fit(pad, segment[1]), Fit(pad, segment[2]),
                        Thickness, c)>>

\* draw_graph: the polyline through the points
GraphLines(this, pad, i, points, c) ==
    [k \in 1..(Len(points) - 1) |->
        LineThickCall("polyline", i, DrawerToLocal(this, pad, points[k]),
                      DrawerToLocal(this, pad, points[k + 1]), Thickness, c)]

\* draw_graph: the circle at each point (the points parse makes have no
\* color of their own)
GraphCircles(this, pad, i, points, c) ==
    [k \in 1..Len(points) |->
        DrawCall("circles", i, "circle",
                 <<DrawerToLocal(this, pad, points[k]), FMul(Thickness, Frac(15, 10)),
                   ColorAlphaSet(ColorAlpha(0, 0, 0, 90), c)>>)]

\* draw_graph: the running-average overlay; the averages are zipped with
\* the points
GraphAverages(this, pad, i, points, averages, c) ==
    LET n == Min2(Len(averages.values), Len(points))
        avg_c == Lerp(White, c, Frac(6, 10))
    IN  IF ~averages.some THEN <<>>
        ELSE [k \in 1..(n - 1) |->
                LineThickCall("averages", i,
                    DrawerToLocal(this, pad, Point2(points[k].x, averages.values[k])),
                    DrawerToLocal(this, pad,
                                  Point2(points[k + 1].x, averages.values[k + 1])),
                    Thickness, ColorAlpha(avg_c.r, avg_c.g, avg_c.b, 100))]

\* a faulty draw_graph: the circles are drawn before the polyline
DrawGraphCirclesFirst(this, pad, i, c) ==
    LET points == this.graphs[i].points
    IN  GraphCircles(this, pad, i, points, c)
          \o GraphLines(this, pad, i, points, c)
          \o GraphAverages(this, pad, i, points, Averages(this.graphs[i]), c)

\* GrapherDrawer::draw_graph for series i
DrawGraph(this, pad, i, c) ==
    LET points == this.graphs[i].points
    IN  GraphLines(this, pad, i, points, c)
          \o GraphCircles(this, pad, i, points, c)
          \o GraphAverages(this, pad, i, points, Averages(this.graphs[i]), c)

\* the palette of to_image
Palette ==
    <<Color(255, 120, 120), Color(120, 255, 120), Color(120, 120, 255),
      Color(255, 120, 220), Color(255, 220, 120)>>

\* the seed of to_image
SEED == 54321

\* a 32-bit integer as its bits, bit 0 first; n is not negative
Bits32(n) == [k \in 0..31 |-> IF k = 31 THEN 0 ELSE (n \div (2 ^ k)) % 2]

\* <<, ^ and the two >> of 32-bit integers: the >> of an i32 copies the sign
\* bit in, the >> of a u32 shifts zeros in
Shl(b, s) == [k \in 0..31 |-> IF k >= s THEN b[k - s] ELSE 0]
ShrSigned(b, s) == [k \in 0..31 |-> IF k + s <= 31 THEN b[k + s] ELSE b[31]]
ShrUnsigned(b, s) == [k \in 0..31 |-> IF k + s <= 31 THEN b[k + s] ELSE 0]
Xor(a, b) == [k \in 0..31 |-> (a[k] + b[k]) % 2]

\* ((random_u32 >> (i * 8)) & 0xff) as u8
Byte(b, i) ==
    b[8 * i] + 2 * b[8 * i + 1] + 4 * b[8 * i + 2] + 8 * b[8 * i + 3]
      + 16 * b[8 * i + 4] + 32 * b[8 * i + 5] + 64 * b[8 * i + 6]
      + 128 * b[8 * i + 7]

\* xorshift32 on a u32
XorshiftU32(seed) ==
    LET a == Xor(seed, Shl(seed, 13))
        b == Xor(a, ShrUnsigned(a, 17))
    IN  Xor(b, Shl(b, 5))

\* seed ^= seed << 13; seed ^= seed >> 17; seed ^= seed << 5, where seed is
\* the i32 an integer literal without a suffix becomes
Xorshift(seed) ==
    LET a == Xor(seed, Shl(seed, 13))
        b == Xor(a, ShrSigned(a, 17))
    IN  Xor(b, Shl(b, 5))

\* colors.next().unwrap_or_else(..): the color of the next series, what is
\* left of the palette, and the seed
NextColor(colors, seed) ==
    IF colors # <<>>
    THEN [color |-> Head(colors), colors |-> Tail(colors), seed |-> seed]
    ELSE LET random_u32 == Xorshift(seed)
         IN  [color |-> Color(Byte(random_u32, 0), Byte(random_u32, 1),
                              Byte(random_u32, 2)),
              colors |-> colors, seed |-> random_u32]

\* Font::default: the advance width of every character that has a glyph,
\* in tenths
FontWidths ==
    [c \in {"0", "1", "2", "3", "4", "5", "6", "7", "8", "9", ".",
            "A", "B", "C", "D", "E", "F", "G", "H", "I", "J", "K", "L", "M",
            "N", "O", "P", "Q", "R", "S", "T", "U", "V", "W", "X", "Y", "Z"} |->
        IF c \in {"W"} THEN 9
        ELSE IF c \in {"2", "3", "4", "5", "A", "G"} THEN 8
        ELSE IF c \in {"7", "B", "D", "E", "F", "K", "M", "R", "T", "X", "Y", "Z"}
        THEN 7
        ELSE IF c \in {"C", "S", "V"} THEN 5
        ELSE IF c = "I" THEN 4
        ELSE IF c \in {"1", "."} THEN 1
        ELSE 6]

\* Font::get: whether the character has a glyph
FontHas(c) == c \in DOMAIN FontWidths

\* text.chars().filter_map(|c| font.get(c)): the widths of the glyphs of a
\* text
RECURSIVE GlyphWidths(_)
GlyphWidths(text) ==
    IF text = <<>> THEN <<>>
    ELSE (IF FontHas(Head(text)) THEN <<Frac(FontWidths[Head(text)], 10)>> ELSE <<>>)
           \o GlyphWidths(Tail(text))

\* Point2::repeat
Repeat(v) == Point2(v, v)

\* PPMImage::aspect, width, height
ImageAspect(image) == image.aspect
ImageWidth(image) == image.width
ImageHeight(image) == image.height

\* the fold of PPMImage::text over the characters from glyph i on: the
\* top_right of the bounding box
RECURSIVE TextFold(_, _, _, _, _, _, _)
TextFold(widths, i, position, step_size, size, bottom_left, top_right) ==
    IF i > Len(widths) THEN top_right
    ELSE LET here == Point2(FAdd(position.x, step_size), position.y)
         IN  TextFold(widths, i + 1, here,
                      FMul(FAdd(widths[i], DefaultStep), size.x), size, bottom_left,
                      Point2(FAdd(here.x, FMul(widths[i], size.x)),
                             FMax(top_right.y, FAdd(bottom_left.y, size.y))))

\* PPMImage::text_size
TextSize(image, size, text) ==
    TextFold(GlyphWidths(text), 1, Repeat(F(0)), F(0), WithoutAspect(image, size),
             Repeat(F(0)), Repeat(F(0)))

\* Point2 / Point2 (componentwise)
PDiv(p, q) == Point2(FDiv(p.x, q.x), FDiv(p.y, q.y))

\* PPMImage::text_between up to its call of text: the position and the
\* size it hands to text, with the real_size it aligns by
TextBetween(image, bb, align_h, align_v, text) ==
    LET text_size == TextSize(image, Repeat(F(1)), text)
        goal_size == PSub(bb.top_right, bb.bottom_left)
        size == PDiv(goal_size, text_size)
        scale == IF FGt(size.x, size.y)
                 THEN Point2(FDiv(size.y, size.x), F(1))
                 ELSE Point2(F(1), FDiv(size.x, size.y))
        real_size == PMul(goal_size, scale)
        pos_h == CASE align_h = "Left" -> bb.bottom_left
                   [] align_h = "Middle" ->
                        Point2(FMul(FSub(FAdd(bb.bottom_left.x, bb.top_right.x),
                                         real_size.x), Frac(1, 2)),
                               bb.bottom_left.y)
                   [] align_h = "Right" ->
                        Point2(FSub(bb.top_right.x, real_size.x), bb.bottom_left.y)
        pos == CASE align_v = "Bottom" -> pos_h
                 [] align_v = "Middle" ->
                      Point2(bb.bottom_left.x,
                             FMul(FSub(FAdd(bb.bottom_left.y, bb.top_right.y),
                                       real_size.y), Frac(1, 2)))
                 [] align_v = "Top" ->
                      Point2(bb.bottom_left.x, FSub(bb.top_right.y, real_size.y))
    IN  [pos |-> pos, size |-> Repeat(FMin(size.x, size.y)), real_size |-> real_size]

\* the digits of n, padded with zeros to k places
RECURSIVE Padded(_, _)
Padded(n, k) ==
    IF k = 0 THEN <<>> ELSE Append(Padded(n \div 10, k - 1), Digits[(n % 10) + 1])

\* format!("{:.4}", value): the value rounded to four decimals, a tie to
\* the even digit
Format4(value) ==
    IF value[2] = 0
    THEN (IF value[1] = 0 THEN <<"N", "a", "N">>
          ELSE IF value[1] > 0 THEN <<"i", "n", "f">>
          ELSE <<"-", "i", "n", "f">>)
    ELSE LET whole == IAbs(value[1]) \div value[2]
             rest == (IAbs(value[1]) % value[2]) * 10000
             cut == rest \div value[2]
             left == rest % value[2]
             up == 2 * left > value[2] \/ (2 * left = value[2] /\ cut % 2 = 1)
             decimals == IF up THEN cut + 1 ELSE cut
         IN  (IF value[1] < 0 THEN <<"-">> ELSE <<>>)
               \o Decimal(whole + decimals \div 10000) \o <<".">>
               \o Padded(decimals % 10000, 4)

\* a text_between call of draw_units
TextBetweenCall(image, bb, align_h, align_v, text) ==
    DrawCall("units", 0, "text_between",
             <<bb, align_h, align_v, text,
               TextBetween(image, bb, align_h, align_v, text)>>)

\* the closure unit_at of draw_units
UnitAt(this, image, pad, left_x, right_edge, value) ==
    LET half_max == FMul(Frac(5, 100), Frac(1, 2))
        y == FAdd(pad.bottom_left.y,
                  FMul(FSub(pad.top_right.y, pad.bottom_left.y), value))
    IN  TextBetweenCall(image,
            [bottom_left |-> Point2(left_x, FSub(y, half_max)),
             top_right |-> Point2(right_edge, FAdd(y, half_max))],
            "Right", "Middle",
            Format4(Unposition(this, Point2(F(0), value)).y))

\* GrapherDrawer::draw_units
DrawUnits(this, image, pad) ==
    LET max_height == Frac(5, 100)
        left_x == FDiv(Frac(2, 100), ImageAspect(image))
        right_edge == FSub(FSub(pad.bottom_left.x, left_x), GuideSize)
    IN  <<TextBetweenCall(image,
              [bottom_left |-> Point2(left_x, pad.bottom_left.y),
               top_right |-> Point2(right_edge, max_height)],
              "Right", "Bottom", Format4(this.bottom)),
          TextBetweenCall(image,
              [bottom_left |-> Point2(left_x, FSub(pad.top_right.y, max_height)),
               top_right |-> Point2(right_edge, pad.top_right.y)],
              "Right", "Top", Format4(this.top)),
          UnitAt(this, image, pad, left_x, right_edge, Frac(1, 4)),
          UnitAt(this, image, pad, left_x, right_edge, Frac(1, 2)),
          UnitAt(this, image, pad, left_x, right_edge, Frac(3, 4))>>

(***************************************************************************)
(* State.                                                                  *)
(*   grapher  the Grapher (top, bottom, left, right, config, graphs)       *)
(*   pc       "new" after Grapher::new, "reading" inside Grapher::parse,   *)
(*            "ok" / "err" after parse returned Ok / Err, "panic" after    *)
(*            the sort of GraphBuilder::complete panicked                  *)
(*   locals   x_step, x and this_graph of the running parse call, or of    *)
(*            the one that returned Err; fresh after a call returned Ok    *)
(*   read     the lines consumed by that call                              *)
(*   entry    the Grapher as it was when that call was entered             *)
(*   nread    the lines consumed so far by all calls                       *)
(* The process around it (main and Config::parse):                         *)
(*   argv     the arguments of the process, env::args().skip(1)            *)
(*   args     the iterator Config::parse reads: the arguments not yet      *)
(*            consumed                                                     *)
(*   conf     the locals of Config::parse (log_scale .. paths)             *)
(*   cres     what Config::parse returned: "Ok" with conf as the Config,   *)
(*            "Err" with the error, "running" before it returns            *)
(*   mpc      the position of main: "config", "files" (the loop over       *)
(*            config.paths), "saved", "panic" (an unwrap failed), or "off" *)
(*            where main is not part of the specification                  *)
(*   todo     the paths the loop of main has not reached yet               *)
(*   opened   the files main has handed to Grapher::parse, which opens     *)
(*            each before anything else                                    *)
(* A PPMImage and what is done with it:                                    *)
(*   image    the PPMImage (data, width, height, width_bigger, aspect)     *)
(*   drawer   the DeferredSDFDrawer that borrows the image: live while it  *)
(*            exists, id counts the drawers made, lines is its batch       *)
(*   file     the file of PPMImage::save: whether File::create made it,    *)
(*            whether both writes succeeded, the header and the bytes      *)
(*            after it                                                     *)
(*   ipc      "run", "panic" (a call panicked), "saved" (save returned     *)
(*            Ok), "failed" (save returned Err), or "off" where no image   *)
(*            is part of the specification                                 *)
(*   call     the last call made on the image or its drawer: "new",        *)
(*            "triangle", "line_thick", "circle", "text", "sdf_drawer",    *)
(*            "line", "submit", "drop", "save"                             *)
(*   last     the last call that wrote pixels: the pixels it collected,    *)
(*            its color, the batch of a submit, and whether its arguments  *)
(*            were finite                                                  *)
(*   resolved the ids of the drawers whose batch sdf_lines has drawn       *)
(*   ndraws   the drawing calls made and drawers created so far            *)
(* The rasterizer called on pixel coordinates alone:                       *)
(*   rargs    the pixel coordinates p0, p1, p2 handed to the call          *)
(*   rcall    "none" before the call, then "line_pixels" or                *)
(*            "triangle_local_pixels", or "off" where the rasterizer is    *)
(*            not called on its own                                        *)
(*   rret     the Vec the call returned                                    *)
(* Grapher::to_image and the GrapherDrawer it makes:                       *)
(*   gdrawer  the GrapherDrawer: its image and its pad (its grapher is     *)
(*            `grapher`)                                                   *)
(*   calls    the drawing calls made on the image of the drawer so far     *)
(*   tpc      the position of to_image: "new" before it is called,         *)
(*            "guides", "lowest" (the loop of the lowest-value markers),   *)
(*            "graphs" (the loop that draws the series), "done", or "off"  *)
(*            where no drawer is part of the specification                 *)
(*   tlocals  the locals of the loops of to_image: i is the index of the   *)
(*            next series, colors what is left of the palette, seed the    *)
(*            generator's state as 32 bits, color the color of the last    *)
(*            turn (black before the first)                                *)
(***************************************************************************)
VARIABLES grapher, pc, locals, read, entry, nread
VARIABLES argv, args, conf, cres, mpc, todo, opened
VARIABLES image, drawer, file, ipc, call, last, resolved, ndraws
VARIABLES rargs, rcall, rret
VARIABLES gdrawer, calls, tpc, tlocals

graphVars == <<grapher, pc, locals, read, entry, nread>>
mainVars == <<argv, args, conf, cres, mpc, todo, opened>>
imageVars == <<image, drawer, file, ipc, call, last, resolved, ndraws>>
rasterVars == <<rargs, rcall, rret>>
drawerVars == <<gdrawer, calls, tpc, tlocals>>
vars == <<graphVars, mainVars, imageVars, rasterVars, drawerVars>>

\* the lines the input files of the line-by-line specification hold
LineStep2 == STEP \o <<" ", "2">>
LineStep0 == STEP \o <<" ", "0">>
LineStepNeg == STEP \o <<" ", "-", "1">>
LineStepNaN == STEP \o <<" ", "N", "a", "N">>
Line1 == <<"1", ".", "0">>
Line3 == <<"3", ".", "0">>
Line5 == <<"5", ".", "0">>
LineWsStep2 == <<" ">> \o LineStep2
LineBad == <<"x">>

Lines ==
    {LineStep2, LineStep0, LineStepNeg, Line1, Line3, Line5,
     LineWsStep2, LineBad}

NoOverrides(running_avg) == GrapherConfig(NoneF, NoneF, NoneF, running_avg)

\* the running_avg settings: unset, or a window of 0..MaxWindow
Windows == {NoneU} \cup {SomeU(k) : k \in 0..MaxWindow}

\* main and Config::parse take no part
MainOff ==
    /\ argv = <<>>
    /\ args = <<>>
    /\ conf = ConfigLocals
    /\ cres = [tag |-> "running", error |-> NoError]
    /\ mpc = "off"
    /\ todo = <<>>
    /\ opened = 0

\* before any call has written pixels
NoDraw == [pixels |-> {}, repr |-> ReprUnit, lines |-> <<>>, finite |-> TRUE]

\* no image is part of the specification
ImageIdle ==
    /\ drawer = [live |-> FALSE, id |-> 0, lines |-> <<>>]
    /\ file = [created |-> FALSE, complete |-> FALSE, header |-> <<>>, body |-> <<>>]
    /\ call = "new"
    /\ last = NoDraw
    /\ resolved = <<>>
    /\ ndraws = 0

\* no image is made
ImageOff ==
    /\ image = PPMImageNew(0, 0, White)
    /\ ipc = "off"
    /\ ImageIdle

\* the rasterizer is not called on its own
RasterOff ==
    /\ rargs = <<>>
    /\ rcall = "off"
    /\ rret = <<>>

\* the locals of to_image before its loops
ToImageLocals == [i |-> 1, colors |-> Palette, seed |-> Bits32(SEED), color |-> Black]

\* no image is drawn from the Grapher
DrawerOff ==
    /\ gdrawer = [image |-> PPMImageNew(0, 0, White), pad |-> ToDrawerWithPad(0, 0)]
    /\ calls = <<>>
    /\ tpc = "off"
    /\ tlocals = ToImageLocals

Init ==
    /\ \E w \in Windows : grapher = GrapherNew(NoOverrides(w))
    /\ pc = "new"
    /\ locals = ParseLocals(grapher.config.running_avg)
    /\ read = <<>>
    /\ entry = grapher
    /\ nread = 0
    /\ MainOff
    /\ ImageOff
    /\ RasterOff
    /\ DrawerOff

Returned == pc \in {"new", "ok", "err"}

\* Grapher::parse up to the loop: File::open succeeded
Open ==
    /\ Returned
    /\ Len(grapher.graphs) < MaxGraphs
    /\ pc' = "reading"
    /\ locals' = ParseLocals(grapher.config.running_avg)
    /\ read' = <<>>
    /\ entry' = grapher
    /\ UNCHANGED <<grapher, nread>>

\* Grapher::parse when File::open fails: the `?` returns the error
OpenFails ==
    /\ Returned
    /\ pc' = "err"
    /\ locals' = [ParseLocals(grapher.config.running_avg) EXCEPT !.ok = FALSE]
    /\ read' = <<>>
    /\ entry' = grapher
    /\ UNCHANGED <<grapher, nread>>

\* a faulty loop: on a malformed line the series read so far is kept
ReadLineKeepsPartial(line) ==
    /\ pc = "reading"
    /\ nread < MaxLines
    /\ locals' = ParseLine(locals, line)
    /\ pc' = IF locals'.ok THEN "reading" ELSE "err"
    /\ read' = Append(read, line)
    /\ nread' = nread + 1
    /\ grapher' = IF locals'.ok THEN grapher
                  ELSE ParseFinish(grapher,
                                   CompleteSorted(locals.this_graph,
                                                  locals.this_graph.points))
    /\ UNCHANGED entry

\* one turn of the loop: the reader yields `line`
ReadLine(line) ==
    /\ pc = "reading"
    /\ nread < MaxLines
    /\ locals' = ParseLine(locals, line)
    /\ pc' = IF locals'.ok THEN "reading" ELSE "err"
    /\ read' = Append(read, line)
    /\ nread' = nread + 1
    /\ UNCHANGED <<grapher, entry>>

\* the reader is exhausted: complete (whose sort may panic), fit_graph,
\* push, Ok(())
Eof ==
    /\ pc = "reading"
    /\ IF SortPanics(locals.this_graph.points)
       THEN pc' = "panic" /\ UNCHANGED grapher
       ELSE /\ \E this_graph \in Complete(locals.this_graph) :
                 grapher' = ParseFinish(grapher, this_graph)
            /\ pc' = "ok"
    /\ UNCHANGED <<locals, read, entry, nread>>

Next ==
    \/ Open /\ UNCHANGED <<mainVars, imageVars, rasterVars, drawerVars>>
    \/ OpenFails /\ UNCHANGED <<mainVars, imageVars, rasterVars, drawerVars>>
    \/ \E line \in Lines : ReadLine(line) /\ UNCHANGED <<mainVars, imageVars, rasterVars, drawerVars>>
    \/ Eof /\ UNCHANGED <<mainVars, imageVars, rasterVars, drawerVars>>

Spec == Init /\ [][Next]_vars

(***************************************************************************)
(* The whole-file specification: each step is one call of Grapher::parse   *)
(* on a file, or of Grapher::from_graphs, under every configuration of     *)
(* the overrides.                                                          *)
(***************************************************************************)
LineNeg2 == <<"-", "2">>
LineFour == <<"4">>

FitSampleLines == {LineNeg2, LineFour}

RECURSIVE SeqsUpTo(_, _)
SeqsUpTo(S, n) ==
    IF n = 0 THEN {<<>>}
    ELSE LET shorter == SeqsUpTo(S, n - 1)
         IN  shorter \cup {Append(q, e) : q \in shorter, e \in S}

ScenarioFile == <<LineStep2, Line1, Line3, Line5>>
NaNFile == <<LineStepNaN, LineNeg2, LineFour>>
BadFile == <<LineFour, LineBad>>

\* the input files: samples at the default step or at step -1, the file of
\* the documented scenario, one whose x values are NaN and a malformed one
FitFiles ==
    {pre \o ys : pre \in {<<>>, <<LineStepNeg>>},
                 ys \in SeqsUpTo(FitSampleLines, MaxSamples)}
      \cup {ScenarioFile, NaNFile, BadFile}

FitScales == {NoneF, SomeF(F(-3)), SomeF(F(0)), SomeF(F(1))}

FitConfigs ==
    {GrapherConfig(min_avg, min_height, max_height, NoneU) :
        min_avg \in FitScales,
        min_height \in {NoneF, SomeF(F(0))},
        max_height \in {NoneF, SomeF(F(2))}}

InitFit ==
    /\ \E config \in FitConfigs : grapher = GrapherNew(config)
    /\ pc = "new"
    /\ locals = ParseLocals(grapher.config.running_avg)
    /\ read = <<>>
    /\ entry = grapher
    /\ nread = 0
    /\ MainOff
    /\ ImageOff
    /\ RasterOff
    /\ DrawerOff

RECURSIVE TotalPoints(_)
TotalPoints(graphs) ==
    IF graphs = <<>> THEN 0
    ELSE Len(Head(graphs).points) + TotalPoints(Tail(graphs))

\* the locals of Grapher::parse after its loop over each input file
FileLocals ==
    [w \in Windows, lines \in FitFiles |-> ParseLines(ParseLocals(w), lines, 1)]

\* Grapher::parse on a file holding `lines`, from the call to its return
GrapherParse(lines) ==
    LET st == FileLocals[grapher.config.running_avg, lines]
    IN  /\ Returned
        /\ Len(grapher.graphs) < MaxFitGraphs
        /\ TotalPoints(grapher.graphs) + Len(st.this_graph.points) <= MaxSamples
        /\ entry' = grapher
        /\ locals' = st
        /\ read' = <<>>
        /\ IF ~st.ok THEN pc' = "err" /\ UNCHANGED grapher
           ELSE IF SortPanics(st.this_graph.points)
           THEN pc' = "panic" /\ UNCHANGED grapher
           ELSE /\ \E this_graph \in Complete(st.this_graph) :
                     grapher' = ParseFinish(grapher, this_graph)
                /\ pc' = "ok"
        /\ UNCHANGED nread

\* Grapher::from_graphs on the series of the Grapher, in the order f
GrapherFromGraphs(f) ==
    /\ pc = "ok"
    /\ grapher' = FromGraphs([i \in 1..Len(grapher.graphs) |-> grapher.graphs[f[i]]],
                             grapher.config)
    /\ pc' = "new"
    /\ locals' = ParseLocals(grapher.config.running_avg)
    /\ entry' = grapher'
    /\ UNCHANGED <<read, nread>>

\* the input files that push at most n samples
FilesWithin ==
    [n \in 0..MaxSamples |->
        {lines \in FitFiles : Len(FileLocals[NoneU, lines].this_graph.points) <= n}]

NextFit ==
    \/ \E lines \in FilesWithin[MaxSamples - TotalPoints(grapher.graphs)] :
          GrapherParse(lines) /\ UNCHANGED <<mainVars, imageVars, rasterVars, drawerVars>>
    \/ \E f \in Permutations(1..Len(grapher.graphs)) :
          GrapherFromGraphs(f) /\ UNCHANGED <<mainVars, imageVars, rasterVars, drawerVars>>

SpecFit == InitFit /\ [][NextFit]_vars
(***************************************************************************)
(* The process specification: main runs Config::parse over the arguments   *)
(* one turn of its loop at a time, unwraps the result, makes the Grapher   *)
(* and hands it each path.                                                 *)
(***************************************************************************)
\* arguments of one specification run
MaxArgs == 5

ArgTwo == <<"2">>
ArgPath == <<"a">>

NumericFlags ==
    {ArgL, ArgLog, ArgMinAvg, ArgM, ArgMin, ArgBigM, ArgMax, ArgR, ArgRunningAvg}
Flags == NumericFlags \cup {ArgBigL, ArgLine}

CoreArgs == {ArgMinAvg, ArgM, ArgL, ArgTwo, ArgPath}

\* the argument lists: every list over the core arguments, and every flag
\* spelling alone or after a path or another flag, followed by nothing, a
\* number, a number only f64 takes, a word, or a number and --min-avg
ArgLists ==
    UNION {[1..n -> CoreArgs] : n \in 0..MaxArgs}
      \cup {pre \o <<flag>> \o post :
              pre \in {<<>>, <<ArgPath>>, <<ArgMinAvg, ArgTwo>>},
              flag \in Flags,
              post \in {<<>>, <<ArgTwo>>, <<LineNeg2>>, <<Line1>>, <<ArgPath>>,
                        <<ArgTwo, ArgMinAvg, ArgTwo>>}}

\* the contents the input files of main hold
MainFiles == {<<LineFour>>, BadFile}

InitMain ==
    /\ argv \in ArgLists
    /\ args = argv
    /\ conf = ConfigLocals
    /\ cres = [tag |-> "running", error |-> NoError]
    /\ mpc = "config"
    /\ todo = <<>>
    /\ opened = 0
    /\ grapher = GrapherNew(NoOverrides(NoneU))
    /\ pc = "new"
    /\ locals = ParseLocals(NoneU)
    /\ read = <<>>
    /\ entry = grapher
    /\ nread = 0
    /\ ImageOff
    /\ RasterOff
    /\ DrawerOff

\* Config::parse: one turn of `while let Some(arg) = args.next()`
ConfigParseArg ==
    /\ mpc = "config"
    /\ cres.tag = "running"
    /\ args # <<>>
    /\ LET r == ConfigLoop(args, conf)
       IN  /\ args' = r.args
           /\ conf' = r.conf
           /\ cres' = IF r.error = NoError THEN cres
                      ELSE [tag |-> "Err", error |-> r.error]
    /\ UNCHANGED <<argv, mpc, todo, opened, graphVars>>

\* Config::parse: the iterator is exhausted
ConfigParseEnd ==
    /\ mpc = "config"
    /\ cres.tag = "running"
    /\ args = <<>>
    /\ cres' = ConfigFinish(conf)
    /\ UNCHANGED <<argv, args, conf, mpc, todo, opened, graphVars>>

\* main: unwrap of the result of Config::parse, then Grapher::new
MainUnwrapConfig ==
    /\ mpc = "config"
    /\ cres.tag # "running"
    /\ IF cres.tag = "Err"
       THEN /\ mpc' = "panic"
            /\ UNCHANGED <<todo, graphVars>>
       ELSE /\ mpc' = "files"
            /\ todo' = conf.paths
            /\ grapher' = GrapherNew(GrapherConfig(conf.min_avg, conf.min_height,
                                                   conf.max_height, conf.running_avg))
            /\ entry' = grapher'
            /\ locals' = ParseLocals(conf.running_avg)
            /\ UNCHANGED <<pc, read, nread>>
    /\ UNCHANGED <<argv, args, conf, cres, opened>>

\* main: grapher.parse(data).unwrap() on a file that holds `lines`
MainParse(lines) ==
    /\ mpc = "files"
    /\ todo # <<>>
    /\ GrapherParse(lines)
    /\ mpc' = IF pc' = "ok" THEN "files" ELSE "panic"
    /\ todo' = Tail(todo)
    /\ opened' = opened + 1
    /\ UNCHANGED <<argv, args, conf, cres>>

\* main: grapher.parse(data).unwrap() on a path that cannot be opened
MainOpenFails ==
    /\ mpc = "files"
    /\ todo # <<>>
    /\ OpenFails
    /\ mpc' = "panic"
    /\ todo' = Tail(todo)
    /\ opened' = opened + 1
    /\ UNCHANGED <<argv, args, conf, cres>>

\* main: grapher.save(..) once every path is ingested (the image is the
\* subject of the image specification)
MainSave ==
    /\ mpc = "files"
    /\ todo = <<>>
    /\ mpc' = "saved"
    /\ UNCHANGED <<argv, args, conf, cres, todo, opened, graphVars>>

NextMain ==
    \/ ConfigParseArg /\ UNCHANGED <<imageVars, rasterVars, drawerVars>>
    \/ ConfigParseEnd /\ UNCHANGED <<imageVars, rasterVars, drawerVars>>
    \/ MainUnwrapConfig /\ UNCHANGED <<imageVars, rasterVars, drawerVars>>
    \/ \E lines \in MainFiles : MainParse(lines) /\ UNCHANGED <<imageVars, rasterVars, drawerVars>>
    \/ MainOpenFails /\ UNCHANGED <<imageVars, rasterVars, drawerVars>>
    \/ MainSave /\ UNCHANGED <<imageVars, rasterVars, drawerVars>>

SpecMain == InitMain /\ [][NextMain]_vars

(***************************************************************************)
(* The image specification: a PPMImage is made, drawn on (directly, and    *)
(* through a DeferredSDFDrawer) and saved.                                 *)
(***************************************************************************)
\* how many drawing calls and drawers one image gets
MaxDraws == 1
\* how many lines one drawer batches
MaxBatch == 2

\* Grapher::parse takes no part
GraphOff ==
    /\ grapher = GrapherNew(NoOverrides(NoneU))
    /\ pc = "new"
    /\ locals = ParseLocals(NoneU)
    /\ read = <<>>
    /\ entry = grapher
    /\ nread = 0

\* the sizes PPMImage::new is called with
Sizes == {<<0, 0>>, <<0, 2>>, <<2, 0>>, <<1, 1>>, <<2, 1>>, <<1, 2>>, <<2, 2>>, <<10, 2>>}
\* the width, height and color PPMImage::new is called with: white as in
\* Grapher::to_image, and one image of another color
Orange == Color(200, 100, 0)
NewArgs == {<<s[1], s[2], White>> : s \in Sizes} \cup {<<2, 2, Orange>>}

PosInf == <<1, 0>>
NegInf == <<-1, 0>>

\* the points handed to the drawing calls: inside the image, on its edge,
\* outside it, and not finite
PtA == Point2(Frac(1, 4), Frac(3, 4))
PtB == Point2(Frac(3, 4), Frac(1, 4))
PtEdge == Point2(F(1), F(0))
PtOut == Point2(Frac(-1, 2), Frac(3, 2))
PtNaN == Point2(NaN, Frac(1, 4))
PtInf == Point2(PosInf, NegInf)

IsFiniteF(a) == a[2] # 0
IsFinitePoint(p) == IsFiniteF(p.x) /\ IsFiniteF(p.y)

\* the arguments of one drawing call
Shape(op, pts, k, text) ==
    [op |-> op, pts |-> pts, k |-> k, text |-> text,
     finite |-> IsFiniteF(k) /\ \A i \in 1..Len(pts) : IsFinitePoint(pts[i])]

Triangles ==
    {Shape("triangle", <<p0, PtB, PtEdge>>, F(0), <<>>) : p0 \in {PtA, PtOut, PtNaN, PtInf}}
LineThicks ==
    {Shape("line_thick", <<PtA, PtB>>, Frac(1, 10), <<>>),
     Shape("line_thick", <<PtOut, PtB>>, Frac(1, 10), <<>>),
     Shape("line_thick", <<PtA, PtInf>>, Frac(1, 10), <<>>),
     Shape("line_thick", <<PtA, PtB>>, NaN, <<>>),
     Shape("line_thick", <<PtNaN, PtB>>, PosInf, <<>>)}
Circles ==
    {Shape("circle", <<PtA>>, Frac(1, 4), <<>>),
     Shape("circle", <<PtOut>>, Frac(1, 4), <<>>),
     Shape("circle", <<PtNaN>>, Frac(1, 4), <<>>),
     Shape("circle", <<PtEdge>>, NaN, <<>>),
     Shape("circle", <<PtInf>>, PosInf, <<>>)}
Texts ==
    {Shape("text", <<Point2(F(0), F(0)), Point2(Frac(1, 2), Frac(1, 2))>>, F(0), <<"7", "1">>),
     Shape("text", <<PtOut, Point2(Frac(1, 2), Frac(1, 2))>>, F(0), <<"1", "x">>),
     Shape("text", <<PtNaN, Point2(PosInf, F(1))>>, F(0), <<"7", "1">>),
     Shape("text", <<Point2(F(0), F(0)), Point2(Frac(1, 2), Frac(1, 2))>>, F(0), <<"x">>)}

\* the colors handed to the drawing calls: a Color, a ColorAlpha that lets
\* the previous color through, and an opaque ColorAlpha
Red == Color(255, 0, 0)
Reprs ==
    {ReprColor(Black), ReprColorAlpha(ColorAlpha(0, 0, 255, 128)),
     ReprColorAlpha(ColorAlpha(0, 255, 0, U8_MAX))}

InitImage ==
    /\ \E a \in NewArgs : image = PPMImageNew(a[1], a[2], a[3])
    /\ ipc = "run"
    /\ ImageIdle
    /\ GraphOff
    /\ MainOff
    /\ RasterOff
    /\ DrawerOff

\* the image can be used: the program runs and no drawer borrows the image
ImageFree == ipc = "run" /\ ~drawer.live

\* a drawing call on an image without pixels panics (to_local subtracts from
\* 0, or the first pixel is out of range) once it reaches a pixel; a text
\* without a known character reaches none
NoPixels(shape) ==
    /\ image.width = 0 \/ image.height = 0
    /\ shape.op = "text" => Glyphs(shape.text) # <<>>

\* the writes of a drawing call: w is what writing the pixel sets gives
DrawWrite(shape, repr, sets, w) ==
    /\ image' = [image EXCEPT !.data = w.data]
    /\ ipc' = IF NoPixels(shape) \/ ~w.ok THEN "panic" ELSE "run"
    /\ last' = [pixels |-> UNION Range(sets), repr |-> repr, lines |-> <<>>,
                finite |-> shape.finite]

\* the pixel sets are written one after the other with one of the colors
DrawSets(shape, sets) ==
    \E repr \in Reprs : DrawWrite(shape, repr, sets, WriteAll(image, sets, 1, repr))

\* triangle, line_thick, circle, text: the pixels are collected (one set, or
\* one per character of a text), then written
Draw(shape, sets) ==
    /\ ImageFree
    /\ ndraws < MaxDraws
    /\ DrawSets(shape, IF image.width = 0 \/ image.height = 0 THEN <<>> ELSE sets)
    /\ call' = shape.op
    /\ ndraws' = ndraws + 1
    /\ UNCHANGED <<drawer, file, resolved>>

\* PPMImage::triangle
Triangle ==
    \E shape \in Triangles :
       Draw(shape, <<Range(TrianglePixels(image, shape.pts[1], shape.pts[2], shape.pts[3]))>>)
\* PPMImage::line_thick
LineThick ==
    \E shape \in LineThicks :
       Draw(shape, <<LineThickPixels(image, shape.pts[1], shape.pts[2], shape.k)>>)
\* PPMImage::circle
Circle ==
    \E shape \in Circles :
       Draw(shape, <<CirclePixels(image, shape.pts[1], shape.k)>>)
\* PPMImage::text
Text ==
    \E shape \in Texts :
       Draw(shape, TextPixels(image, shape.pts[1], shape.pts[2], shape.text))

\* PPMImage::sdf_drawer
SdfDrawer ==
    /\ ImageFree
    /\ ndraws < MaxDraws
    /\ drawer' = [live |-> TRUE, id |-> drawer.id + 1, lines |-> <<>>]
    /\ call' = "sdf_drawer"
    /\ ndraws' = ndraws + 1
    /\ UNCHANGED <<image, file, ipc, last, resolved>>

\* the lines handed to DeferredSDFDrawer::line
SdfInputs ==
    {<<Point2(Frac(1, 4), Frac(1, 2)), Point2(Frac(3, 4), Frac(1, 2)), Frac(3, 10), Red>>,
     <<Point2(Frac(1, 2), F(0)), Point2(Frac(1, 2), F(1)), Frac(1, 10), Black>>,
     <<PtA, PtNaN, Frac(1, 10), Red>>}

\* a faulty line: the line is drawn at once
DrawerLineEager(p0, p1, thickness, c) ==
    /\ drawer.live
    /\ Len(drawer.lines) < MaxBatch
    /\ drawer' = [drawer EXCEPT !.lines = Append(@, SdfLine(image, p0, p1, thickness, c))]
    /\ image' = [image EXCEPT !.data = SdfLines(image, <<SdfLine(image, p0, p1, thickness, c)>>)]
    /\ call' = "line"
    /\ UNCHANGED <<file, ipc, last, resolved, ndraws>>

\* DeferredSDFDrawer::line
DrawerLine(p0, p1, thickness, c) ==
    /\ drawer.live
    /\ Len(drawer.lines) < MaxBatch
    /\ drawer' = [drawer EXCEPT !.lines = Append(@, SdfLine(image, p0, p1, thickness, c))]
    /\ call' = "line"
    /\ UNCHANGED <<image, file, ipc, last, resolved, ndraws>>

\* DeferredSDFDrawer::submit: the drawer is moved into the call
DrawerSubmit ==
    /\ drawer.live
    /\ image' = [image EXCEPT !.data = SdfLines(image, drawer.lines)]
    /\ drawer' = [drawer EXCEPT !.live = FALSE, !.lines = <<>>]
    /\ resolved' = Append(resolved, drawer.id)
    /\ call' = "submit"
    /\ last' = [pixels |-> {}, repr |-> ReprUnit, lines |-> drawer.lines,
                finite |-> TRUE]
    /\ UNCHANGED <<file, ipc, ndraws>>

\* the drawer goes out of scope without submit
DrawerDrop ==
    /\ drawer.live
    /\ drawer' = [drawer EXCEPT !.live = FALSE, !.lines = <<>>]
    /\ call' = "drop"
    /\ UNCHANGED <<image, file, ipc, last, resolved, ndraws>>

\* PPMImage::save: the header
Header(image_) ==
    <<"P", "6", "\n">> \o Decimal(image_.width) \o <<" ">> \o Decimal(image_.height)
        \o <<"\n", "2", "5", "5", "\n">>

\* PPMImage::save: data.iter().flat_map(|c| [c.r, c.g, c.b])
Body(image_) ==
    [j \in 1..(3 * Len(image_.data)) |->
        LET c == image_.data[((j - 1) \div 3) + 1]
        IN  CASE (j - 1) % 3 = 0 -> c.r
              [] (j - 1) % 3 = 1 -> c.g
              [] OTHER -> c.b]

\* a faulty save: the check of the size comes after File::create
SaveCreatesFirst(outcome) ==
    /\ ImageFree
    /\ IF outcome = "create"
       THEN /\ ipc' = "failed"
            /\ UNCHANGED file
       ELSE IF image.width = 0 \/ image.height = 0
       THEN /\ ipc' = "panic"
            /\ file' = [file EXCEPT !.created = TRUE]
       ELSE /\ ipc' = IF outcome = "ok" THEN "saved" ELSE "failed"
            /\ file' = [created |-> TRUE, complete |-> outcome = "ok",
                        header |-> IF outcome = "header" THEN <<>> ELSE Header(image),
                        body |-> IF outcome = "ok" THEN Body(image) ELSE <<>>]
    /\ call' = "save"
    /\ UNCHANGED <<image, drawer, last, resolved, ndraws>>

\* PPMImage::save.  outcome says how far the file system lets it get: File::create
\* fails ("create"), the write of the header or of the data fails ("header",
\* "data": what a failed write leaves in the file is not modelled), or all
\* succeed ("ok")
Save(outcome) ==
    /\ ImageFree
    /\ IF image.width = 0 \/ image.height = 0
       THEN /\ ipc' = "panic"
            /\ UNCHANGED file
       ELSE IF outcome = "create"
       THEN /\ ipc' = "failed"
            /\ UNCHANGED file
       ELSE /\ ipc' = IF outcome = "ok" THEN "saved" ELSE "failed"
            /\ file' = [created |-> TRUE, complete |-> outcome = "ok",
                        header |-> IF outcome = "header" THEN <<>> ELSE Header(image),
                        body |-> IF outcome = "ok" THEN Body(image) ELSE <<>>]
    /\ call' = "save"
    /\ UNCHANGED <<image, drawer, last, resolved, ndraws>>

NextImage ==
    \/ Triangle /\ UNCHANGED <<graphVars, mainVars, rasterVars, drawerVars>>
    \/ LineThick /\ UNCHANGED <<graphVars, mainVars, rasterVars, drawerVars>>
    \/ Circle /\ UNCHANGED <<graphVars, mainVars, rasterVars, drawerVars>>
    \/ Text /\ UNCHANGED <<graphVars, mainVars, rasterVars, drawerVars>>
    \/ SdfDrawer /\ UNCHANGED <<graphVars, mainVars, rasterVars, drawerVars>>
    \/ \E l \in SdfInputs :
          DrawerLine(l[1], l[2], l[3], l[4]) /\ UNCHANGED <<graphVars, mainVars, rasterVars, drawerVars>>
    \/ DrawerSubmit /\ UNCHANGED <<graphVars, mainVars, rasterVars, drawerVars>>
    \/ DrawerDrop /\ UNCHANGED <<graphVars, mainVars, rasterVars, drawerVars>>
    \/ \E outcome \in {"create", "header", "data", "ok"} :
          Save(outcome) /\ UNCHANGED <<graphVars, mainVars, rasterVars, drawerVars>>

SpecImage == InitImage /\ [][NextImage]_vars

(***************************************************************************)
(* The rasterizer specification: line_pixels and triangle_local_pixels     *)
(* are called on pixel coordinates.                                        *)
(***************************************************************************)
\* the greatest pixel coordinate handed to the rasterizer
MaxCoord == 3

\* main takes no part, no image is made
RasterAlone ==
    /\ GraphOff
    /\ MainOff
    /\ ImageOff

\* the pixel coordinates
Coords == {Point2(x, y) : x \in 0..MaxCoord, y \in 0..MaxCoord}

InitRaster ==
    /\ rargs \in Coords \X Coords \X Coords
    /\ rcall = "none"
    /\ rret = <<>>
    /\ RasterAlone
    /\ DrawerOff

\* PPMImage::line_pixels(p0, p1)
LinePixelsCall ==
    /\ rcall = "none"
    /\ rcall' = "line_pixels"
    /\ rret' = LinePixels(rargs[1], rargs[2])
    /\ UNCHANGED rargs

\* PPMImage::triangle_local_pixels(p0, p1, p2)
TriangleLocalPixelsCall ==
    /\ rcall = "none"
    /\ rcall' = "triangle_local_pixels"
    /\ rret' = TriangleLocalPixels(rargs[1], rargs[2], rargs[3])
    /\ UNCHANGED rargs

NextRaster ==
    \/ LinePixelsCall /\ UNCHANGED <<graphVars, mainVars, imageVars, drawerVars>>
    \/ TriangleLocalPixelsCall /\ UNCHANGED <<graphVars, mainVars, imageVars, drawerVars>>

SpecRaster == InitRaster /\ [][NextRaster]_vars

(***************************************************************************)
(* The drawer specification: Grapher::to_image on a Grapher that holds     *)
(* ingested series, one step per part of GrapherDrawer::to_image and per   *)
(* turn of its loops.                                                      *)
(***************************************************************************)
\* how many series the largest Grapher holds
MaxSeries == 10

\* the series Grapher::parse completes from a file that holds the samples
\* ys, with the default step
RECURSIVE PushSamples(_, _, _)
PushSamples(b, ys, k) ==
    IF k > Len(ys) THEN b
    ELSE PushSamples(GraphBuilderPush(b, Point2(F(k), F(ys[k]))), ys, k + 1)

SeriesOf(ys, running_avg) ==
    LET b == PushSamples(GraphBuilderNew(running_avg), ys, 1)
    IN  CompleteSorted(b, b.points)

\* the files: their samples
SampleFiles ==
    {<<>>, <<<<1, 3>>>>, <<<<5, 6>>>>, <<<<4, 4>>>>, <<<<-2>>>>, <<<<>>>>,
     <<<<1, 3, 2>>, <<1, 3>>>>, <<<<>>, <<5, 6>>>>,
     [k \in 1..MaxSeries |-> <<4>>]}

\* the configurations: the overrides of the frame, the window of the
\* running average, the best-fit overlay
DrawConfigs ==
    {[GrapherConfig(NoneF, o[1], o[2], w) EXCEPT !.plot_line = l] :
        o \in {<<NoneF, NoneF>>, <<SomeF(F(0)), SomeF(F(2))>>},
        w \in {NoneU, SomeU(2)},
        l \in BOOLEAN}

\* the canvases: wide, square and tall
Canvases == {<<4, 2>>, <<2, 2>>, <<2, 4>>, <<1, 5>>}

InitDrawer ==
    /\ \E files \in SampleFiles, config \in DrawConfigs :
          grapher = FromGraphs([k \in 1..Len(files) |->
                                   SeriesOf(files[k], config.running_avg)], config)
    /\ pc = "ok"
    /\ locals = ParseLocals(grapher.config.running_avg)
    /\ read = <<>>
    /\ entry = grapher
    /\ nread = 0
    /\ MainOff
    /\ ImageOff
    /\ RasterOff
    /\ gdrawer = [image |-> PPMImageNew(0, 0, White), pad |-> ToDrawerWithPad(0, 0)]
    /\ calls = <<>>
    /\ tpc = "new"
    /\ tlocals = ToImageLocals

\* Grapher::to_image(size) up to the call of GrapherDrawer::to_image:
\* PPMImage::new and to_drawer_with
ToDrawerWith(size) ==
    /\ tpc = "new"
    /\ LET image_ == PPMImageNew(size[1], size[2], White)
       IN  gdrawer' = [image |-> image_,
                       pad |-> ToDrawerWithPad(ImageWidth(image_), ImageHeight(image_))]
    /\ tpc' = "guides"
    /\ UNCHANGED <<calls, tlocals>>

\* GrapherDrawer::to_image: draw_guides
ToImageGuides ==
    /\ tpc = "guides"
    /\ calls' = calls \o DrawGuides(gdrawer.pad)
    /\ tpc' = "lowest"
    /\ UNCHANGED <<gdrawer, tlocals>>

\* one turn of the loop of the lowest-value markers
ToImageLowest ==
    /\ tpc = "lowest"
    /\ tlocals.i <= Len(grapher.graphs)
    /\ calls' = calls \o LowestMarker(grapher, gdrawer.pad, tlocals.i)
    /\ tlocals' = [tlocals EXCEPT !.i = @ + 1]
    /\ UNCHANGED <<gdrawer, tpc>>

\* the end of that loop: draw_borders, the palette and the seed
ToImageBorders ==
    /\ tpc = "lowest"
    /\ tlocals.i > Len(grapher.graphs)
    /\ calls' = calls \o DrawBorders(gdrawer.pad)
    /\ tlocals' = ToImageLocals
    /\ tpc' = "graphs"
    /\ UNCHANGED gdrawer

\* one turn of the loop over the series: the color, the best-fit overlay
\* if plot_line is set, draw_graph
ToImageGraph ==
    /\ tpc = "graphs"
    /\ tlocals.i <= Len(grapher.graphs)
    /\ LET next == NextColor(tlocals.colors, tlocals.seed)
           color == next.color
       IN  /\ calls' = calls
                \o (IF grapher.config.plot_line
                    THEN DrawBestFitLine(grapher, gdrawer.pad, tlocals.i,
                                         ColorAlpha(color.r, color.g, color.b, 100))
                    ELSE <<>>)
                \o DrawGraph(grapher, gdrawer.pad, tlocals.i, color)
           /\ tlocals' = [i |-> tlocals.i + 1, colors |-> next.colors,
                          seed |-> next.seed, color |-> color]
    /\ UNCHANGED <<gdrawer, tpc>>

\* the end of that loop: draw_units, and the image is returned
ToImageUnits ==
    /\ tpc = "graphs"
    /\ tlocals.i > Len(grapher.graphs)
    /\ calls' = calls \o DrawUnits(grapher, gdrawer.image, gdrawer.pad)
    /\ tpc' = "done"
    /\ UNCHANGED <<gdrawer, tlocals>>

NextDrawer ==
    \/ \E size \in Canvases :
          ToDrawerWith(size) /\ UNCHANGED <<graphVars, mainVars, imageVars, rasterVars>>
    \/ ToImageGuides /\ UNCHANGED <<graphVars, mainVars, imageVars, rasterVars>>
    \/ ToImageLowest /\ UNCHANGED <<graphVars, mainVars, imageVars, rasterVars>>
    \/ ToImageBorders /\ UNCHANGED <<graphVars, mainVars, imageVars, rasterVars>>
    \/ ToImageGraph /\ UNCHANGED <<graphVars, mainVars, imageVars, rasterVars>>
    \/ ToImageUnits /\ UNCHANGED <<graphVars, mainVars, imageVars, rasterVars>>

SpecDrawer == InitDrawer /\ [][NextDrawer]_vars
(***************************************************************************)
(* Properties.                                                             *)
(***************************************************************************)
Last(q) == q[Len(q)]
Pt(x, y) == [x |-> F(x), y |-> F(y)]

\* the indices of the lines of a file that are not step directives, in order
RECURSIVE SampleIndices(_, _)
SampleIndices(lines, i) ==
    IF i > Len(lines) THEN <<>>
    ELSE IF StartsWith(lines[i], STEP) THEN SampleIndices(lines, i + 1)
    ELSE <<i>> \o SampleIndices(lines, i + 1)

\* the step in force when line n is read: the value of the last step
\* directive before it, 1.0 when there is none
RECURSIVE StepInForce(_, _)
StepInForce(lines, n) ==
    IF n <= 1 THEN F(1)
    ELSE IF StartsWith(lines[n - 1], STEP)
    THEN ParseF64(Trim(SubSeq(lines[n - 1], 5, Len(lines[n - 1])))).v
    ELSE StepInForce(lines, n - 1)

\* C1: while Grapher::parse reads a file, the n-th accepted sample is at
\* x = (x of the previous sample, or 0) + the step in force when its line is
\* read, with the y its line spells; step lines add no point; the lines
\* step 2, 1.0, 3.0, 5.0 give (2,1), (4,3), (6,5)
C1_SamplePlacement ==
    pc = "reading" =>
        LET points == locals.this_graph.points
            idx == SampleIndices(read, 1)
        IN  /\ Len(points) = Len(idx)
            /\ \A n \in 1..Len(idx) :
                  /\ points[n].x =
                        FAdd(IF n = 1 THEN F(0) ELSE points[n - 1].x,
                             StepInForce(read, idx[n]))
                  /\ points[n].y = ParseF64(Trim(read[idx[n]])).v
            /\ (read = ScenarioFile =>
                  points = <<Pt(2, 1), Pt(4, 3), Pt(6, 5)>>)

C1_Witness ==
    /\ pc = "reading"
    /\ read = ScenarioFile
    /\ locals.this_graph.points = <<Pt(2, 1), Pt(4, 3), Pt(6, 5)>>

NonDecreasingX(points) ==
    \A i, j \in 1..Len(points) : i < j => FLe(points[i].x, points[j].x)

\* C2: the points of every completed series are non-decreasing in x
C2_SortedByX ==
    \A g \in 1..Len(grapher.graphs) : NonDecreasingX(grapher.graphs[g].points)

\* a series was completed whose x went backwards during ingestion
C2_Witness ==
    /\ pc = "ok"
    /\ Len(grapher.graphs) = 1
    /\ LET points == locals.this_graph.points
       IN  /\ \E i \in 1..(Len(points) - 1) : FLt(points[i + 1].x, points[i].x)
           /\ grapher.graphs[1].points # points

\* the sum of the y-values of points lo..hi, added from the front
RECURSIVE SumY(_, _, _)
SumY(points, lo, hi) ==
    IF hi < lo THEN F(0) ELSE FAdd(points[lo].y, SumY(points, lo + 1, hi))

\* the mean of the y-values of points lo..hi; 0/0 for an empty range
MeanY(points, lo, hi) == FDiv(SumY(points, lo, hi), F(Max2(hi - lo + 1, 0)))

\* C3: with window k, the running average at (0-based) index i of a completed
\* series is the mean of the y-values at indices max(0, i-k) .. i-1
C3_RunningAverage ==
    \A g \in 1..Len(grapher.graphs) :
        LET graph == grapher.graphs[g]
            k == grapher.config.running_avg.v
            avgs == Averages(graph)
        IN  avgs.some =>
              \A i \in 0..(Len(graph.points) - 1) :
                  /\ i + 1 <= Len(avgs.values)
                  /\ avgs.values[i + 1] = MeanY(graph.points, Max2(0, i - k) + 1, i)

\* a series of three points with different y-values completed under window 1:
\* index 1 averages its one prior point, index 2 only the last one
C3_Witness ==
    /\ pc = "ok"
    /\ grapher.config.running_avg = SomeU(1)
    /\ Len(grapher.graphs) = 1
    /\ LET graph == grapher.graphs[1]
       IN  /\ Len(graph.points) = 3
           /\ graph.points[1].y # graph.points[2].y
           /\ Averages(graph).values[3] = graph.points[2].y

\* C4: a completed series holds as many running-average values as points
\* when a window is configured, and no running averages when none is
C4_AverageLength ==
    \A g \in 1..Len(grapher.graphs) :
        LET graph == grapher.graphs[g]
        IN  IF grapher.config.running_avg.some
            THEN /\ Averages(graph).some
                 /\ Len(Averages(graph).values) = Len(graph.points)
            ELSE ~Averages(graph).some

\* a series of two or more points completed under a window of 0
C4_Witness ==
    /\ pc = "ok"
    /\ grapher.config.running_avg = SomeU(0)
    /\ Len(grapher.graphs) = 1
    /\ Len(grapher.graphs[1].points) >= 2
    /\ Len(Averages(grapher.graphs[1]).values) = Len(grapher.graphs[1].points)

\* C5: when Grapher::parse has returned an error, the Grapher (top, bottom,
\* left, right, the series) is what it was when the call was entered
C5_ErrorLeavesGrapher ==
    pc = "err" => grapher = entry

\* parse failed on a line after it had accepted samples of the same file
C5_Witness ==
    /\ pc = "err"
    /\ read # <<>>
    /\ Len(locals.this_graph.points) >= 2
    /\ grapher = entry

\* trimmed text of the form `step <float>`
IsStepForm(t) ==
    /\ StartsWith(t, STEP)
    /\ Len(t) > Len(STEP)
    /\ IsWhitespace(t[Len(STEP) + 1])
    /\ ParseF64(Trim(SubSeq(t, Len(STEP) + 1, Len(t)))).ok

\* C6: a line is classified by its trimmed text: `step <float>` sets the
\* step, a float is pushed as a sample, anything else makes parse fail
C6_TrimmedClassification ==
    (pc \in {"reading", "err"} /\ read # <<>>) =>
        LET t == Trim(Last(read))
            points == locals.this_graph.points
        IN  IF IsStepForm(t)
            THEN /\ pc = "reading"
                 /\ locals.x_step = ParseF64(Trim(SubSeq(t, Len(STEP) + 1, Len(t)))).v
            ELSE IF ParseF64(t).ok
            THEN /\ pc = "reading"
                 /\ points # <<>>
                 /\ Last(points).y = ParseF64(t).v
            ELSE pc = "err"

\* the y-values of all samples of all ingested series
AllY(graphs) ==
    UNION {{graphs[g].points[i].y : i \in 1..Len(graphs[g].points)} :
             g \in 1..Len(graphs)}

MaxOf(S) == CHOOSE m \in S : \A v \in S : FLe(v, m)
MinOf(S) == CHOOSE m \in S : \A v \in S : FLe(m, v)

\* C7: once a sample is ingested, top is max_height when configured and the
\* greatest y of all samples otherwise
C7_TopIsMaxY ==
    AllY(grapher.graphs) # {} =>
        grapher.top = IF grapher.config.max_height.some
                      THEN grapher.config.max_height.v
                      ELSE MaxOf(AllY(grapher.graphs))

\* a step that ingests one more series
Ingests == Len(grapher'.graphs) = Len(grapher.graphs) + 1

\* C8: with no min_height, no ingestion raises bottom
C8_BottomNeverRises ==
    [][(Ingests /\ ~grapher.config.min_height.some)
          => ~FLt(grapher.bottom, grapher'.bottom)]_vars

YsOf(graph) == {graph.points[i].y : i \in 1..Len(graph.points)}

\* lowest - scale * |mean(y) - lowest| over the points of one series
AvgBottom(graph, scale) ==
    LET lowest == MinOf(YsOf(graph))
        mean == MeanY(graph.points, 1, Len(graph.points))
    IN  FSub(lowest, FMul(scale, FAbs(FSub(mean, lowest))))

\* C9: with min_avg = scale and no min_height, ingesting a series whose least
\* y is below bottom sets bottom to lowest - scale * |mean(y) - lowest| of that
\* series, and ingesting any other series leaves bottom as it was
C9_MinAvgBottom ==
    [][(Ingests /\ grapher.config.min_avg.some /\ ~grapher.config.min_height.some)
          => LET graph == Last(grapher'.graphs)
             IN  IF graph.points # <<>>
                    /\ FLt(MinOf(YsOf(graph)), grapher.bottom)
                 THEN grapher'.bottom = AvgBottom(graph, grapher.config.min_avg.v)
                 ELSE grapher'.bottom = grapher.bottom]_vars

\* under a non-zero scale a second series lowered bottom past its least y
C9_Witness ==
    /\ pc = "ok"
    /\ grapher.config.min_avg.some
    /\ grapher.config.min_avg.v # F(0)
    /\ ~grapher.config.min_height.some
    /\ Len(grapher.graphs) = 2
    /\ entry.graphs = <<grapher.graphs[1]>>
    /\ grapher.bottom # entry.bottom
    /\ grapher.bottom # MinOf(YsOf(grapher.graphs[2]))
    /\ grapher.bottom = AvgBottom(grapher.graphs[2], grapher.config.min_avg.v)

Reordered(graphs, f) == [i \in 1..Len(graphs) |-> graphs[f[i]]]

\* C10: top, left and right are those of from_graphs on every reordering of
\* the ingested series, and so is bottom when min_avg is not configured
C10_OrderIndependent ==
    \A f \in Permutations(1..Len(grapher.graphs)) :
        LET other == FromGraphs(Reordered(grapher.graphs, f), grapher.config)
        IN  /\ other.top = grapher.top
            /\ other.left = grapher.left
            /\ other.right = grapher.right
            /\ (~grapher.config.min_avg.some => other.bottom = grapher.bottom)

\* two series of different extent were ingested without overrides, and under
\* min_avg some order of two series gives another bottom
C10_Witness ==
    /\ Len(grapher.graphs) = 2
    /\ LET a == grapher.graphs[1]
           b == grapher.graphs[2]
           swapped == FromGraphs(<<b, a>>, grapher.config)
       IN  /\ a.points # <<>>
           /\ b.points # <<>>
           /\ Last(a.points).x # Last(b.points).x
           /\ MaxOf(YsOf(a)) # MaxOf(YsOf(b))
           /\ ~grapher.config.max_height.some
           /\ grapher.config.min_avg.some
           /\ swapped.bottom # grapher.bottom
           /\ swapped.top = grapher.top
           /\ swapped.right = grapher.right

\* the x-values of all samples of all ingested series
AllX(graphs) ==
    UNION {{graphs[g].points[i].x : i \in 1..Len(graphs[g].points)} :
             g \in 1..Len(graphs)}

\* C11: once a sample is ingested, right is the greatest x of all samples of
\* all series (also when every x is below 0), and left is 0
C11_RightIsMaxX ==
    AllX(grapher.graphs) # {} =>
        /\ grapher.right = MaxOf(AllX(grapher.graphs))
        /\ grapher.left = F(0)

\* every ingested series holds exactly one sample, of the same y in all
SingleSampleSeries(graphs) ==
    /\ graphs # <<>>
    /\ \A g \in 1..Len(graphs) : Len(graphs[g].points) = 1
    /\ \A g, h \in 1..Len(graphs) : graphs[g].points[1].y = graphs[h].points[1].y

IsFinite(a) == a[2] # 0

\* C12: with no overrides, after only single-sample series of one value v
\* (of any sign) were ingested, top = bottom = v and position of such a
\* point has a non-finite y
C12_SingleSampleFrame ==
    (grapher.config = NoOverrides(NoneU) /\ SingleSampleSeries(grapher.graphs)) =>
        LET point == grapher.graphs[1].points[1]
        IN  /\ grapher.top = point.y
            /\ grapher.bottom = point.y
            /\ ~IsFinite(Position(grapher, point).y)

\* the positions of argv that Config::parse reads as a numeric flag when
\* every numeric flag takes the argument after it as its value
RECURSIVE FlagPositions(_, _)
FlagPositions(a, i) ==
    IF i > Len(a) THEN {}
    ELSE IF a[i] \in NumericFlags THEN {i} \cup FlagPositions(a, i + 2)
    ELSE FlagPositions(a, i + 1)

\* the argument after the flag at position i is a number of the flag's type
UsableValue(a, i) ==
    /\ i < Len(a)
    /\ IF a[i] \in {ArgR, ArgRunningAvg} THEN ParseU32(a[i + 1]).ok
       ELSE ParseF64(a[i + 1]).ok

\* the numeric flags of argv that lack a usable value
BadFlags(a) == {i \in FlagPositions(a, 1) : ~UsableValue(a, i)}

\* argv holds one of `flags` with a parseable value
HasFlagValue(a, flags) ==
    \E i \in FlagPositions(a, 1) : a[i] \in flags /\ UsableValue(a, i)

ConfigReturned == cres.tag # "running"

\* main stopped on the error of Config::parse: no Grapher was made and no
\* file was handed to Grapher::parse
StoppedBeforeFiles ==
    /\ mpc \in {"config", "panic"}
    /\ opened = 0
    /\ grapher.graphs = <<>>

\* C13 as stated: whenever argv holds a min-avg flag and a min flag with
\* parseable values, whatever else it holds, Config::parse returns
\* ExclusiveArguments naming --min-avg and --min, and main stops on it before
\* any file is opened
C13_ExclusiveWhenever ==
    (ConfigReturned /\ HasFlagValue(argv, {ArgMinAvg})
                    /\ HasFlagValue(argv, {ArgM, ArgMin})) =>
        /\ cres = [tag |-> "Err", error |-> ExclusiveArguments(ArgMinAvg, ArgMin)]
        /\ StoppedBeforeFiles

\* C13: when argv holds a min-avg flag and a min flag with parseable values,
\* in either order, and no numeric flag of argv lacks a usable value,
\* Config::parse returns ExclusiveArguments naming --min-avg and --min; main
\* stops on every error of Config::parse before any file is opened
C13_ExclusiveArguments ==
    /\ (ConfigReturned /\ HasFlagValue(argv, {ArgMinAvg})
                       /\ HasFlagValue(argv, {ArgM, ArgMin})
                       /\ BadFlags(argv) = {}) =>
          cres = [tag |-> "Err", error |-> ExclusiveArguments(ArgMinAvg, ArgMin)]
    /\ cres.tag = "Err" => StoppedBeforeFiles

\* main panicked on ExclusiveArguments for arguments that name the min flag
\* before --min-avg and hold a path as well
C13_Witness ==
    /\ mpc = "panic"
    /\ cres = [tag |-> "Err", error |-> ExclusiveArguments(ArgMinAvg, ArgMin)]
    /\ conf.paths # <<>>
    /\ opened = 0
    /\ \E i, j \in 1..Len(argv) : i < j /\ argv[i] = ArgMin /\ argv[j] = ArgMinAvg

Least(S) == CHOOSE i \in S : \A j \in S : i <= j

\* C14: when a numeric flag of argv lacks a usable value, Config::parse
\* returns no Config but an error with the offending text of the first such
\* flag: ExpectedValue with the flag when it is the last argument,
\* NumberParse with the argument after it otherwise
C14_FlagWithoutValue ==
    (ConfigReturned /\ BadFlags(argv) # {}) =>
        LET i == Least(BadFlags(argv))
        IN  /\ cres.tag = "Err"
            /\ cres.error = IF i = Len(argv) THEN ExpectedValue(argv[i])
                            ELSE NumberParse(argv[i + 1])
            /\ mpc # "files"

\* Config::parse returned ExpectedValue for a flag that ends the arguments
\* after it had read a path
C14_Witness ==
    /\ cres.tag = "Err"
    /\ cres.error.kind = "ExpectedValue"
    /\ cres.error.first = Last(argv)
    /\ Len(argv) >= 2
    /\ conf.paths # <<>>

(***************************************************************************)
(* Properties of the image specification.                                  *)
(***************************************************************************)
ZeroSized == image.width = 0 \/ image.height = 0

\* C15: PPMImage::save on an image of width 0 or height 0 panics, and it does
\* so before the file is created or a byte is written: such an image never has
\* a file, and once save was called on it the program has panicked.
C15_ZeroSizedSavePanics ==
    ZeroSized =>
        /\ ~file.created
        /\ file.header = <<>> /\ file.body = <<>>
        /\ call = "save" => ipc = "panic"

\* save was called on an image with a width but no height
C15_Witness ==
    /\ call = "save"
    /\ image.width > 0 /\ image.height = 0
    /\ ipc = "panic"


\* the bytes of the pixel with triple index k in what save wrote
Triple(k) == <<file.body[3 * k + 1], file.body[3 * k + 2], file.body[3 * k + 3]>>
Rgb(c) == <<c.r, c.g, c.b>>

\* the header read back: "P6", a line end, two decimal numbers with a space
\* between them, a line end, "255", a line end
ParseHeader(h) ==
    LET wlen == DigitRun(h, 4)
        hlen == DigitRun(h, 5 + wlen)
    IN  IF /\ Len(h) = wlen + hlen + 9
           /\ wlen >= 1 /\ hlen >= 1
           /\ SubSeq(h, 1, 3) = <<"P", "6", "\n">>
           /\ h[4 + wlen] = " "
           /\ SubSeq(h, 5 + wlen + hlen, Len(h)) = <<"\n", "2", "5", "5", "\n">>
        THEN <<NatOf(SubSeq(h, 4, 3 + wlen)), NatOf(SubSeq(h, 5 + wlen, 4 + wlen + hlen))>>
        ELSE <<>>

\* C16: the drawing calls never change the number of stored pixels, and for
\* width >= 1 and height >= 1 a save that succeeded wrote the header
\* P6\n<width> <height>\n255\n, from which width and height are read back,
\* and after it exactly 3 * width * height bytes: the pixel at column x of row
\* y is at triple index x + y * width, so the pixels the last drawing call
\* wrote with a Color are found there with that color.
C16_SavedLayout ==
    /\ Len(image.data) = image.width * image.height
    /\ ipc = "saved" =>
          /\ image.width >= 1 /\ image.height >= 1
          /\ file.header = <<"P", "6", "\n">> \o Decimal(image.width) \o <<" ">>
                             \o Decimal(image.height) \o <<"\n", "2", "5", "5", "\n">>
          /\ ParseHeader(file.header) = <<image.width, image.height>>
          /\ Len(file.body) = 3 * image.width * image.height
          /\ \A x \in 0..(image.width - 1), y \in 0..(image.height - 1) :
                Triple(x + y * image.width) = Rgb(image.data[IndexMaybe(image, Point2(x, y)).v + 1])
          /\ last.repr.policy = "Color" =>
                \A p \in last.pixels :
                   Triple(p.x + p.y * image.width) = Rgb(ColorFrom(last.repr.c))

\* a two-digit width: a drawing call colored some pixels of both rows and left
\* others, and save succeeded
C16_Witness ==
    /\ ipc = "saved"
    /\ image.width = 10 /\ image.height = 2
    /\ last.repr.policy = "Color"
    /\ \E p, q \in last.pixels : p.y = 0 /\ q.y = 1
    /\ \E i \in 1..Len(image.data) : image.data[i] = White


\* a color as the opaque Color policy and as a ColorAlpha policy with a = 255
OpaqueReprs ==
    UNION {{ReprColor(c), ReprColorAlpha(ColorAlpha(c.r, c.g, c.b, U8_MAX))} :
             c \in {Black, Orange, Color(1, 127, 254)}}
IsOpaque(repr) == repr.policy = "Color" \/ (repr.policy = "ColorAlpha" /\ repr.c.a = U8_MAX)

\* C17: composing an opaque color (the Color policy, or a ColorAlpha with
\* a = 255) over any pixel value the image holds gives exactly the replacement
\* color, and composing it a second time changes nothing; the pixels a drawing
\* call wrote with an opaque color hold exactly that color.
C17_OpaqueReplaces ==
    /\ \A repr \in OpaqueReprs \cup {r \in {last.repr} : IsOpaque(r)} :
          \A previous \in Range(image.data) :
             /\ Set(repr, previous) = ColorFrom(repr.c)
             /\ Set(repr, Set(repr, previous)) = Set(repr, previous)
    /\ (ipc = "run" /\ call \in {"triangle", "line_thick", "circle", "text"} /\ IsOpaque(last.repr)) =>
          \A p \in last.pixels :
             image.data[IndexMaybe(image, p).v + 1] = ColorFrom(last.repr.c)

\* an opaque ColorAlpha was drawn over some pixels of the orange image
C17_Witness ==
    /\ ipc = "run"
    /\ call \in {"triangle", "line_thick", "circle", "text"}
    /\ last.repr.policy = "ColorAlpha" /\ last.repr.c.a = U8_MAX
    /\ last.pixels # {}
    /\ \E i \in 1..Len(image.data) : image.data[i] = Orange
    /\ \E i \in 1..Len(image.data) : image.data[i] = ColorFrom(last.repr.c)


\* the lines of a batch that contain a point by the cap or the body test
Inside(lines, curr) ==
    {k \in 1..Len(lines) : IsCap(lines[k], curr) \/ IsBody(lines[k], curr)}

\* C18: a step of DeferredSDFDrawer::submit gives every pixel that lies inside
\* (cap or body test) at least one line of the batch the color of the last
\* line of the batch among those that contain it, and leaves every pixel that
\* lies inside no line of the batch with the color it had.
C18_SubmitColors ==
    [][(drawer.live /\ call' = "submit") =>
          \A x \in 0..(image.width - 1), y \in 0..(image.height - 1) :
             LET i == IndexMaybe(image, Point2(x, y)).v + 1
                 inside == Inside(drawer.lines, SdfCurr(image, x, y))
             IN  image'.data[i] =
                    IF inside = {} THEN image.data[i]
                    ELSE drawer.lines[CHOOSE k \in inside : \A j \in inside : k >= j].c]_vars

\* a batch of two lines of different colors was submitted on the orange
\* image: one pixel is inside both lines and has the color of the second, one
\* is inside the first only, and one is inside neither and still orange
C18_Witness ==
    /\ call = "submit"
    /\ Len(last.lines) = 2
    /\ last.lines[1].c # last.lines[2].c
    /\ \E x \in 0..(image.width - 1), y \in 0..(image.height - 1) :
          /\ Inside(last.lines, SdfCurr(image, x, y)) = {1, 2}
          /\ image.data[IndexMaybe(image, Point2(x, y)).v + 1] = last.lines[2].c
    /\ \E x \in 0..(image.width - 1), y \in 0..(image.height - 1) :
          /\ Inside(last.lines, SdfCurr(image, x, y)) = {1}
          /\ image.data[IndexMaybe(image, Point2(x, y)).v + 1] = last.lines[1].c
    /\ \E x \in 0..(image.width - 1), y \in 0..(image.height - 1) :
          /\ Inside(last.lines, SdfCurr(image, x, y)) = {}
          /\ image.data[IndexMaybe(image, Point2(x, y)).v + 1] = Orange


\* C19: a step of DeferredSDFDrawer::line appends one line to the batch and
\* leaves the image as it is; while a drawer exists the image changes in a
\* step of submit only; a step of submit ends the drawer, so that no drawer is
\* resolved twice; a step that drops the drawer leaves the image as it is and
\* resolves nothing.
C19_DrawerFrame ==
    [][/\ call' = "line" =>
             /\ image' = image
             /\ drawer'.live
             /\ Len(drawer'.lines) = Len(drawer.lines) + 1
             /\ SubSeq(drawer'.lines, 1, Len(drawer.lines)) = drawer.lines
       /\ (drawer.live /\ image' # image) => call' = "submit"
       /\ call' = "submit" =>
             /\ ~drawer'.live
             /\ resolved' = Append(resolved, drawer.id)
             /\ \A i, j \in 1..Len(resolved') : resolved'[i] = resolved'[j] => i = j
       /\ call' = "drop" =>
             /\ image' = image
             /\ resolved' = resolved
             /\ ~drawer'.live]_vars

\* two lines were batched on the orange image, one of them contains a pixel,
\* and every pixel is still orange
C19_Witness ==
    /\ call = "line"
    /\ drawer.live
    /\ Len(drawer.lines) = 2
    /\ \E x \in 0..(image.width - 1), y \in 0..(image.height - 1) :
          Inside(drawer.lines, SdfCurr(image, x, y)) # {}
    /\ \A i \in 1..Len(image.data) : image.data[i] = Orange


\* C20: on an image with width >= 1 and height >= 1 no drawing call panics,
\* and every pixel that line_thick, circle, triangle and text collect to write
\* lies inside the image, whatever the points, thicknesses and sizes are
\* (below 0, above 1, NaN, infinite).
C20_WritesInside ==
    (image.width >= 1 /\ image.height >= 1) =>
        /\ ipc # "panic"
        /\ \A p \in last.pixels :
              /\ p.x \in 0..(image.width - 1)
              /\ p.y \in 0..(image.height - 1)
              /\ IndexMaybe(image, p).some

\* line_thick was called with a point or a thickness that is not finite and
\* wrote pixels of the 10 by 2 image
C20_Witness ==
    /\ call = "line_thick"
    /\ ~last.finite
    /\ last.pixels # {}
    /\ ipc = "run"
    /\ image.width = 10 /\ image.height = 2

(***************************************************************************)
(* C21: PPMImage::line_pixels(p0, p1) terminates for every pair of pixel   *)
(* coordinates and returns a sequence that starts with p0, ends with p1,   *)
(* moves by at most 1 in x and at most 1 in y from each pixel to the next, *)
(* and has exactly max(|p1.x - p0.x|, |p1.y - p0.y|) + 1 elements.         *)
(***************************************************************************)
C21_LinePixels ==
    rcall = "line_pixels" =>
        LET p0 == rargs[1]
            p1 == rargs[2]
        IN  /\ Len(rret) = Max2(IAbs(p1.x - p0.x), IAbs(p1.y - p0.y)) + 1
            /\ rret[1] = p0
            /\ rret[Len(rret)] = p1
            /\ \A i \in 1..(Len(rret) - 1) :
                  /\ IAbs(rret[i + 1].x - rret[i].x) <= 1
                  /\ IAbs(rret[i + 1].y - rret[i].y) <= 1

\* a line that is neither axis-parallel nor diagonal, drawn towards
\* smaller x and greater y
C21_Witness ==
    /\ rcall = "line_pixels"
    /\ rargs[1] = Point2(3, 0)
    /\ rargs[2] = Point2(0, 2)
    /\ Len(rret) = 4

\* the pixels the Bresenham lines of the three edges touch
EdgePixels(p0, p1, p2) ==
    Range(LinePixels(p0, p1)) \cup Range(LinePixels(p1, p2))
        \cup Range(LinePixels(p2, p0))

\* the pixels of row y from the least to the greatest x of `touched`
RowSpan(touched, y) ==
    LET xs == {e.x : e \in {t \in touched : t.y = y}}
    IN  {Point2(x, y) : x \in {v \in 0..MaxCoord :
                                  /\ \E lo \in xs : lo <= v
                                  /\ \E hi \in xs : v <= hi}}

(***************************************************************************)
(* C22: triangle_local_pixels(p0, p1, p2) returns, for every row from the  *)
(* smallest to the largest vertex y, exactly the pixels between the least  *)
(* and the greatest x the Bresenham lines of the three edges touch on that *)
(* row, each pixel once and row after row; the result holds the three      *)
(* vertices and is never empty, also for equal or collinear vertices.      *)
(***************************************************************************)
C22_TriangleRows ==
    rcall = "triangle_local_pixels" =>
        LET p0 == rargs[1]
            p1 == rargs[2]
            p2 == rargs[3]
            y_lowest == Min2(p0.y, Min2(p1.y, p2.y))
            y_highest == Max2(p0.y, Max2(p1.y, p2.y))
            touched == EdgePixels(p0, p1, p2)
        IN  /\ Range(rret) = UNION {RowSpan(touched, y) : y \in y_lowest..y_highest}
            /\ \A y \in y_lowest..y_highest : RowSpan(touched, y) # {}
            /\ \A i \in 1..(Len(rret) - 1) :
                  \/ rret[i].y < rret[i + 1].y
                  \/ rret[i].y = rret[i + 1].y /\ rret[i].x < rret[i + 1].x
            /\ {p0, p1, p2} \subseteq Range(rret)
            /\ rret # <<>>

\* a triangle with an interior pixel no edge touches, and a degenerate one
\* (the witness is the former)
C22_Witness ==
    /\ rcall = "triangle_local_pixels"
    /\ rargs = <<Point2(0, 0), Point2(3, 0), Point2(0, 3)>>
    /\ Point2(1, 1) \in Range(rret)
    /\ Point2(1, 1) \notin EdgePixels(rargs[1], rargs[2], rargs[3])

\* the best-fit flag is among the arguments of the process
LineFlagGiven == \E i \in 1..Len(argv) : argv[i] \in {ArgBigL, ArgLine}

(***************************************************************************)
(* C26: when the best-fit flag (-L / --line) is given on the command line  *)
(* the configuration the Grapher draws with has plot_line = true, so that  *)
(* to_image draws the best-fit overlay of every series; when the flag is   *)
(* absent plot_line is false and no overlay is drawn.                      *)
(***************************************************************************)
C26_LineFlagReachesGrapher ==
    mpc = "saved" => (grapher.config.plot_line <=> LineFlagGiven)

\* the pixels an extent of normalized size r spans along x and along y once
\* without_aspect has corrected it (to_local_f scales x by the width and y
\* by the height)
PixelSpan(r) ==
    LET extent == WithoutAspect(image, Point2(r, r))
    IN  Point2(FMul(extent.x, F(image.width)), FMul(extent.y, F(image.height)))

(***************************************************************************)
(* C28: for every buffer with width >= 1 and height >= 1 the aspect factor *)
(* makes equal normalized lengths cover equal pixel lengths on both axes:  *)
(* an extent of normalized size r passed through without_aspect spans as   *)
(* many pixels horizontally as vertically, for width >= height and for     *)
(* height > width.                                                         *)
(***************************************************************************)
C28_AspectSquare ==
    (ipc # "off" /\ image.width >= 1 /\ image.height >= 1) =>
        \A r \in {F(1), Frac(1, 2)} : PixelSpan(r).x = PixelSpan(r).y

(***************************************************************************)
(* C27: for every canvas with width >= 1 and height >= 1 (wide, square and *)
(* tall) the padding box that to_drawer_with builds has                    *)
(* top_right.x > bottom_left.x and top_right.y > bottom_left.y.            *)
(***************************************************************************)
C27_PadOrdered ==
    (tpc \notin {"off", "new"}
        /\ gdrawer.image.width >= 1 /\ gdrawer.image.height >= 1) =>
        /\ FGt(gdrawer.pad.top_right.x, gdrawer.pad.bottom_left.x)
        /\ FGt(gdrawer.pad.top_right.y, gdrawer.pad.bottom_left.y)

\* the point lies in [0, 1] x [0, 1]
InUnitSquare(p) ==
    /\ FLe(F(0), p.x) /\ FLe(p.x, F(1))
    /\ FLe(F(0), p.y) /\ FLe(p.y, F(1))

(***************************************************************************)
(* C23: both endpoints of the best-fit overlay segment that                *)
(* draw_best_fit_line computes lie in the normalized plot rectangle        *)
(* [0, 1] x [0, 1], for every series and configuration, also with          *)
(* max_height / min_height overrides that put the data outside the axis    *)
(* frame and with a fitted slope of 0.                                     *)
(***************************************************************************)
C23_BestFitInside ==
    \A k \in 1..Len(calls) :
        calls[k].from = "best_fit" =>
            LET segment == BestFitSegment(grapher, grapher.graphs[calls[k].series])
            IN  InUnitSquare(segment[1]) /\ InUnitSquare(segment[2])

\* the state of the unsigned generator after n advances from seed
RECURSIVE Advanced(_, _)
Advanced(seed, n) == IF n = 0 THEN seed ELSE Advanced(XorshiftU32(seed), n - 1)

\* the color of series i (0-based): the palette, then bytes 0, 1, 2 of the
\* unsigned generator after i - 4 advances from the seed
PaletteOrXorshift(i) ==
    IF i < 5 THEN Palette[i + 1]
    ELSE LET x == Advanced(Bits32(SEED), i - 4)
         IN  Color(Byte(x, 0), Byte(x, 1), Byte(x, 2))

(***************************************************************************)
(* C24: in to_image the i-th series (0-based, ingestion order) is drawn    *)
(* with palette color i for i < 5, and for i >= 5 with the color whose     *)
(* r, g, b are bytes 0, 1, 2 of the state of a 32-bit unsigned xorshift    *)
(* generator (x ^= x << 13; x ^= x >> 17; x ^= x << 5, modulo 2^32,        *)
(* logical right shift) seeded with 54321 after exactly i - 4 advances;    *)
(* every call of to_image starts again from the seed.                      *)
(***************************************************************************)
C24_SeriesColors ==
    (tpc = "graphs" /\ tlocals.i > 1) =>
        tlocals.color = PaletteOrXorshift(tlocals.i - 2)

\* where a call of to_image stands in the order of drawing: the stage, then
\* the series for the stages that go over the series, then the part of the
\* series
StageOf(from) ==
    CASE from = "guides" -> 1
      [] from = "lowest" -> 2
      [] from = "borders" -> 3
      [] from \in {"best_fit", "polyline", "circles", "averages"} -> 4
      [] from = "units" -> 5

PartOf(from) ==
    CASE from = "best_fit" -> 1
      [] from = "polyline" -> 2
      [] from = "circles" -> 3
      [] from = "averages" -> 4
      [] OTHER -> 0

OrderKey(drawn) ==
    <<StageOf(drawn.from),
      IF StageOf(drawn.from) \in {2, 4} THEN drawn.series ELSE 0,
      PartOf(drawn.from)>>

KeyLeq(a, b) ==
    \/ a[1] < b[1]
    \/ a[1] = b[1] /\ a[2] < b[2]
    \/ a[1] = b[1] /\ a[2] = b[2] /\ a[3] <= b[3]

InDrawingOrder ==
    \A j, k \in 1..Len(calls) :
        j < k => KeyLeq(OrderKey(calls[j]), OrderKey(calls[k]))

\* the number of calls that come from one part of to_image for one series
CallsFrom(from, series) ==
    Cardinality({k \in 1..Len(calls) :
                    calls[k].from = from /\ calls[k].series = series})

\* what is drawn once to_image has returned: the guides, the border and
\* the labels, and the best-fit overlay of each series exactly when
\* plot_line is set
AllStagesDrawn ==
    tpc = "done" =>
        /\ \E k \in 1..Len(calls) : calls[k].from = "guides"
        /\ CallsFrom("borders", 0) = 2
        /\ \E k \in 1..Len(calls) : calls[k].from = "units"
        /\ \A s \in 1..Len(grapher.graphs) :
              CallsFrom("best_fit", s) = (IF grapher.config.plot_line THEN 1 ELSE 0)

(***************************************************************************)
(* C25: GrapherDrawer::to_image draws in a fixed order: the guide lines    *)
(* first, then the lowest-value markers, one for each series that holds    *)
(* at least one sample and none for a series without samples, then the     *)
(* border, then for each series in ingestion order its best-fit overlay    *)
(* (when enabled) before its polyline, its polyline before its point       *)
(* circles, its point circles before its running-average overlay, all of   *)
(* one series before anything of the next, and the axis unit labels after  *)
(* all series.                                                             *)
(***************************************************************************)
C25_DrawOrder ==
    /\ InDrawingOrder
    /\ AllStagesDrawn
    /\ tpc \in {"graphs", "done"} =>
          \A s \in 1..Len(grapher.graphs) :
              CallsFrom("lowest", s) =
                  (IF Len(grapher.graphs[s].points) > 0 THEN 1 ELSE 0)

\* the order as stated at first: one lowest-value marker per series,
\* whatever the series holds
C25_DrawOrderOneMarkerPerSeries ==
    /\ InDrawingOrder
    /\ AllStagesDrawn
    /\ tpc \in {"graphs", "done"} =>
          \A s \in 1..Len(grapher.graphs) : CallsFrom("lowest", s) = 1

\* to_image has returned for two series with the best-fit overlay and the
\* running averages: every part of the order has drawn something
C25_Witness ==
    /\ tpc = "done"
    /\ Len(grapher.graphs) = 2
    /\ grapher.config.plot_line
    /\ \A s \in 1..2 :
          \A from \in {"lowest", "best_fit", "polyline", "circles", "averages"} :
              CallsFrom(from, s) >= 1

\* where the alignments put a text of the footprint real_size in the box
\* bb, each on its own axis
AlignedX(bb, align_h, real_size) ==
    CASE align_h = "Left" -> bb.bottom_left.x
      [] align_h = "Middle" ->
           FMul(FSub(FAdd(bb.bottom_left.x, bb.top_right.x), real_size.x), Frac(1, 2))
      [] align_h = "Right" -> FSub(bb.top_right.x, real_size.x)

AlignedY(bb, align_v, real_size) ==
    CASE align_v = "Bottom" -> bb.bottom_left.y
      [] align_v = "Middle" ->
           FMul(FSub(FAdd(bb.bottom_left.y, bb.top_right.y), real_size.y), Frac(1, 2))
      [] align_v = "Top" -> FSub(bb.top_right.y, real_size.y)

AlignedEachAxis(bb, align_h, align_v, placed) ==
    /\ placed.pos.x = AlignedX(bb, align_h, placed.real_size)
    /\ placed.pos.y = AlignedY(bb, align_v, placed.real_size)

(***************************************************************************)
(* C29: in text_between the horizontal position of the stamped text is     *)
(* determined by the horizontal alignment alone (Left: box left edge,      *)
(* Middle: centered, Right: text's right edge on the box's right edge)     *)
(* and the vertical position by the vertical alignment alone, for all      *)
(* nine combinations of alignments: for the box and the text of every      *)
(* label draw_units stamps, under the alignments it uses and under every   *)
(* other combination.                                                      *)
(***************************************************************************)
C29_AlignmentsIndependent ==
    \A k \in 1..Len(calls) :
        calls[k].op = "text_between" =>
            LET bb == calls[k].args[1]
                text == calls[k].args[4]
            IN  /\ AlignedEachAxis(bb, calls[k].args[2], calls[k].args[3],
                                   calls[k].args[5])
                /\ \A align_h \in {"Left", "Middle", "Right"},
                      align_v \in {"Bottom", "Middle", "Top"} :
                      AlignedEachAxis(bb, align_h, align_v,
                          TextBetween(gdrawer.image, bb, align_h, align_v, text))

\* the labels format! gives for the values that are not finite
NonFiniteLabels == {Format4(NaN), Format4(PosInf), Format4(NegInf)}

(***************************************************************************)
(* C30: every character of an axis unit label that draw_units produces     *)
(* for a finite value (the value printed with 4 decimals: digits, the      *)
(* decimal point and, for negative values, the minus sign) has a glyph in  *)
(* the default font, so no character of a label is dropped by the text     *)
(* renderer, which skips the characters without a glyph.                   *)
(***************************************************************************)
C30_LabelGlyphs ==
    \A k \in 1..Len(calls) :
        (calls[k].from = "units" /\ calls[k].args[4] \notin NonFiniteLabels) =>
            LET text == calls[k].args[4]
            IN  /\ \A n \in 1..Len(text) : FontHas(text[n])
                /\ Len(GlyphWidths(text)) = Len(text)

====
